---- MODULE Spec2Model ----
(***************************************************************************)
(* Schema pipeline of the ERD tool: Lexer -> Parser -> DatabaseSchema ->   *)
(* Validator / Graph Builder.                                              *)
(*                                                                         *)
(* Strings are modelled as sequences of one-character strings, so that     *)
(* scanning, toLowerCase() and keyword lookup are computed and not         *)
(* assumed.  An optional value (T | undefined) is a sequence of length at  *)
(* most one: <<>> is undefined, <<v>> is v.                                *)
(***************************************************************************)
EXTENDS Integers, Sequences, FiniteSets, TLC

VARIABLES
    input,      \* the DSL text handed to tokenize() / parseDSL()
    lexer,      \* Lexer fields: input, pos, line, column, tokens (+ done)
    tokens,     \* Parser.tokens
    pos,        \* Parser.pos
    schema,     \* the DatabaseSchema under construction / produced
    pc,         \* the parser loop the control is in
    cur,        \* the table / column / index / enum / group being built
    outcome,    \* "idle" | "running" | "returned" | "ParserError" | "TypeError"
    error,      \* <<>> or <<[line, column, value]>> of the thrown ParserError
    stmts,      \* history: the statements dispatched by the top-level loop
    vresult,    \* <<>> or <<ValidationResult>>
    graph,      \* <<>> or <<Graph>>
    lgraph,     \* the Graph handed to the layout functions
    lopts,      \* the LayoutOptions handed to them
    dagre,      \* what the dagre library computes for lgraph: centres, edge points
    layoutEngines, \* the registry: engine name -> <<>> or <<engine>>
    laid,       \* <<>> or <<the result of a layout call>>
    lcalls,     \* history: the registry and layout calls made, in order
    bounded,    \* <<>> or <<the results of computeGraphBounds, called once and again>>
    oldSchema,  \* the first argument of diffSchemas (schema is the second)
    diff,       \* <<>> or <<SchemaDiff>> of diffSchemas(oldSchema, schema)
    diffBack,   \* <<>> or <<SchemaDiff>> of diffSchemas(schema, oldSchema)
    history,    \* useHistory: the HistoryState [past, present, future]
    hlog,       \* history: the last two useHistory calls and the states before them
    hsteps,     \* the number of useHistory calls made
    debounce    \* useDebouncedParse: input, lastInputRef, timeoutRef, cleanup, result

lexVars   == <<lexer>>
parseVars == <<tokens, pos, schema, pc, cur, outcome, error, stmts>>
irVars    == <<vresult, graph>>
layoutVars == <<lgraph, lopts, dagre, layoutEngines, laid, lcalls, bounded>>
diffVars  == <<oldSchema, diff, diffBack>>
hookVars  == <<history, hlog, hsteps, debounce>>
vars      == <<input, lexer, tokens, pos, schema, pc, cur, outcome, error,
               stmts, vresult, graph, layoutVars, diffVars, hookVars>>

None    == <<>>
Some(v) == <<v>>

----------------------------------------------------------------------------
(* Characters                                                              *)

LowerLetters ==
    {"a","b","c","d","e","f","g","h","i","j","k","l","m",
     "n","o","p","q","r","s","t","u","v","w","x","y","z"}
UpperLetters ==
    {"A","B","C","D","E","F","G","H","I","J","K","L","M",
     "N","O","P","Q","R","S","T","U","V","W","X","Y","Z"}
Digits == {"0","1","2","3","4","5","6","7","8","9"}

\* the character U+0060 (it cannot be written inside a TLA+ string)
Backquote == "backquote"

\* what JavaScript yields for input[pos] past the end of the string
undefined == "undefined"
undefinedText == <<"u","n","d","e","f","i","n","e","d">>

\* RegExp.test(undefined) tests the text "undefined"
isDigit(ch)        == ch \in Digits
isAlpha(ch)        == ch \in LowerLetters \cup UpperLetters \cup {undefined}
isAlphaNumeric(ch) == ch \in LowerLetters \cup UpperLetters \cup Digits \cup {"_", undefined}

UpperToLower ==
    [c \in UpperLetters |->
        CASE c = "A" -> "a" [] c = "B" -> "b" [] c = "C" -> "c" [] c = "D" -> "d"
          [] c = "E" -> "e" [] c = "F" -> "f" [] c = "G" -> "g" [] c = "H" -> "h"
          [] c = "I" -> "i" [] c = "J" -> "j" [] c = "K" -> "k" [] c = "L" -> "l"
          [] c = "M" -> "m" [] c = "N" -> "n" [] c = "O" -> "o" [] c = "P" -> "p"
          [] c = "Q" -> "q" [] c = "R" -> "r" [] c = "S" -> "s" [] c = "T" -> "t"
          [] c = "U" -> "u" [] c = "V" -> "v" [] c = "W" -> "w" [] c = "X" -> "x"
          [] c = "Y" -> "y" [] c = "Z" -> "z"]

toLowerCase(s) ==
    [i \in 1..Len(s) |-> IF s[i] \in UpperLetters THEN UpperToLower[s[i]] ELSE s[i]]

----------------------------------------------------------------------------
(* Lexer                                                                   *)

KEYWORDS ==
    << <<  <<"t","a","b","l","e">>, "TABLE" >>,
       <<  <<"T","a","b","l","e">>, "TABLE" >>,
       <<  <<"T","A","B","L","E">>, "TABLE" >>,
       <<  <<"e","n","u","m">>, "ENUM" >>,
       <<  <<"E","n","u","m">>, "ENUM" >>,
       <<  <<"E","N","U","M">>, "ENUM" >>,
       <<  <<"r","e","f">>, "REF" >>,
       <<  <<"R","e","f">>, "REF" >>,
       <<  <<"R","E","F">>, "REF" >>,
       <<  <<"t","a","b","l","e","g","r","o","u","p">>, "TABLEGROUP" >>,
       <<  <<"T","a","b","l","e","G","r","o","u","p">>, "TABLEGROUP" >>,
       <<  <<"a","s">>, "AS" >>,
       <<  <<"n","o","t","e">>, "NOTE" >>,
       <<  <<"N","o","t","e">>, "NOTE" >>,
       <<  <<"i","n","d","e","x","e","s">>, "INDEXES" >>,
       <<  <<"I","n","d","e","x","e","s">>, "INDEXES" >> >>

\* KEYWORDS[value] ?? 'IDENTIFIER'
KeywordType(value) ==
    IF \E i \in 1..Len(KEYWORDS) : KEYWORDS[i][1] = value
    THEN KEYWORDS[CHOOSE i \in 1..Len(KEYWORDS) : KEYWORDS[i][1] = value][2]
    ELSE "IDENTIFIER"

\* done: tokenize() has returned
NewLexer(s) ==
    [input |-> s, pos |-> 0, line |-> 1, column |-> 1, tokens |-> <<>>, done |-> FALSE]

\* Lexer.current(): input[pos]
lexCurrent(L) == IF L.pos < Len(L.input) THEN L.input[L.pos + 1] ELSE undefined
\* Lexer.peek(): input[pos + 1] ?? ''
lexPeek(L)    == IF L.pos + 1 < Len(L.input) THEN L.input[L.pos + 2] ELSE ""
lexAdvance(L) == [L EXCEPT !.pos = @ + 1, !.column = @ + 1]

makeToken(L, type, value) ==
    [type |-> type, value |-> value, line |-> L.line, column |-> L.column]
pushToken(L, tok) == [L EXCEPT !.tokens = Append(@, tok)]

RECURSIVE skipLineComment(_)
skipLineComment(L) ==
    IF L.pos < Len(L.input) /\ lexCurrent(L) # "\n"
    THEN skipLineComment(lexAdvance(L))
    ELSE L

RECURSIVE skipBlockComment(_)
skipBlockComment(L) ==
    IF L.pos < Len(L.input)
    THEN IF lexCurrent(L) = "*" /\ lexPeek(L) = "/"
         THEN lexAdvance(lexAdvance(L))
         ELSE IF lexCurrent(L) = "\n"
              THEN skipBlockComment(lexAdvance([L EXCEPT !.line = @ + 1, !.column = 0]))
              ELSE skipBlockComment(lexAdvance(L))
    ELSE L

RECURSIVE skipWhitespaceAndComments(_)
skipWhitespaceAndComments(L) ==
    IF L.pos < Len(L.input)
    THEN LET ch == lexCurrent(L) IN
         IF ch = " " \/ ch = "\t" \/ ch = "\r"
         THEN skipWhitespaceAndComments(lexAdvance(L))
         ELSE IF ch = "/" /\ lexPeek(L) = "/"
              THEN skipWhitespaceAndComments(skipLineComment(L))
              ELSE IF ch = "/" /\ lexPeek(L) = "*"
                   THEN skipWhitespaceAndComments(
                            skipBlockComment(lexAdvance(lexAdvance(L))))
                   ELSE L
    ELSE L

\* the while loop of readString: state L and the value read so far
RECURSIVE readStringBody(_, _, _)
readStringBody(L, quote, value) ==
    IF L.pos < Len(L.input) /\ lexCurrent(L) # quote
    THEN IF lexCurrent(L) = "\\"
         THEN LET L1 == lexAdvance(L)
                  c  == lexCurrent(L1)
              IN  readStringBody(lexAdvance(L1), quote,
                                 IF c = undefined THEN value \o undefinedText
                                                  ELSE Append(value, c))
         ELSE readStringBody(lexAdvance(L), quote, Append(value, lexCurrent(L)))
    ELSE [L |-> L, value |-> value]

readString(L, quote) ==
    LET start == L.column
        r     == readStringBody(lexAdvance(L), quote, <<>>)
        L2    == lexAdvance(r.L)
    IN  pushToken(L2, [type |-> "STRING", value |-> r.value,
                       line |-> L2.line, column |-> start])

RECURSIVE readNumberBody(_, _)
readNumberBody(L, value) ==
    IF L.pos < Len(L.input) /\ (isDigit(lexCurrent(L)) \/ lexCurrent(L) = ".")
    THEN readNumberBody(lexAdvance(L), Append(value, lexCurrent(L)))
    ELSE [L |-> L, value |-> value]

readNumber(L) ==
    LET start == L.column
        r     == readNumberBody(L, <<>>)
    IN  pushToken(r.L, [type |-> "NUMBER", value |-> r.value,
                        line |-> r.L.line, column |-> start])

RECURSIVE readIdentifierBody(_, _)
readIdentifierBody(L, value) ==
    IF L.pos < Len(L.input) /\ isAlphaNumeric(lexCurrent(L))
    THEN readIdentifierBody(lexAdvance(L), Append(value, lexCurrent(L)))
    ELSE [L |-> L, value |-> value]

readIdentifier(L) ==
    LET start == L.column
        r     == readIdentifierBody(L, <<>>)
    IN  pushToken(r.L, [type |-> KeywordType(r.value), value |-> r.value,
                        line |-> r.L.line, column |-> start])

\* as PunctuationType, the default case taken for an identifier
PunctuationTypeNoUnknown(ch) ==
    CASE ch = "{" -> "LBRACE"
      [] ch = "}" -> "RBRACE"
      [] ch = "[" -> "LBRACKET"
      [] ch = "]" -> "RBRACKET"
      [] ch = "(" -> "LPAREN"
      [] ch = ")" -> "RPAREN"
      [] ch = "," -> "COMMA"
      [] ch = ":" -> "COLON"
      [] ch = "." -> "DOT"
      [] ch = "-" -> "REL_ONE_TO_ONE"
      [] ch = ">" -> "REL_MANY_TO_ONE"
      [] OTHER    -> "IDENTIFIER"

\* the switch over punctuation and operators, default UNKNOWN
PunctuationType(ch) ==
    CASE ch = "{" -> "LBRACE"
      [] ch = "}" -> "RBRACE"
      [] ch = "[" -> "LBRACKET"
      [] ch = "]" -> "RBRACKET"
      [] ch = "(" -> "LPAREN"
      [] ch = ")" -> "RPAREN"
      [] ch = "," -> "COMMA"
      [] ch = ":" -> "COLON"
      [] ch = "." -> "DOT"
      [] ch = "-" -> "REL_ONE_TO_ONE"
      [] ch = ">" -> "REL_MANY_TO_ONE"
      [] OTHER    -> "UNKNOWN"

\* one iteration of the while loop of tokenize()
tokenizeIteration(L0) ==
    LET L  == skipWhitespaceAndComments(L0)
        ch == lexCurrent(L)
    IN  IF L.pos >= Len(L.input) THEN L
        ELSE IF ch = "\n"
        THEN LET L1 == lexAdvance(pushToken(L, makeToken(L, "NEWLINE", <<"\n">>)))
             IN  [L1 EXCEPT !.line = @ + 1, !.column = 1]
        ELSE IF ch = "'" \/ ch = "\"" \/ ch = Backquote THEN readString(L, ch)
        ELSE IF isDigit(ch) THEN readNumber(L)
        ELSE IF isAlpha(ch) \/ ch = "_" THEN readIdentifier(L)
        ELSE IF ch = "<"
        THEN IF lexPeek(L) = ">"
             THEN lexAdvance(lexAdvance(
                      pushToken(L, makeToken(L, "REL_MANY_TO_MANY", <<"<", ">">>))))
             ELSE lexAdvance(pushToken(L, makeToken(L, "REL_ONE_TO_MANY", <<"<">>)))
        ELSE lexAdvance(pushToken(L, makeToken(L, PunctuationType(ch), <<ch>>)))

\* the tail of tokenize(): push EOF and return the tokens
tokenizeEOF(L) == [pushToken(L, makeToken(L, "EOF", <<>>)) EXCEPT !.done = TRUE]

RECURSIVE tokenizeLoop(_)
tokenizeLoop(L) ==
    IF L.pos < Len(L.input) THEN tokenizeLoop(tokenizeIteration(L))
                            ELSE tokenizeEOF(L)

tokenize(s) == tokenizeLoop(NewLexer(s)).tokens

----------------------------------------------------------------------------
(* Parser helpers.  A parser thread p is [pos, thrown]: the cursor and the *)
(* exception in flight, if any.  Every helper passes a thrown p through    *)
(* unchanged, so that a sequence of calls reads like the code.             *)

Thread(i) == [pos |-> i, thrown |-> None]
Thrown(p) == p.thrown # None

\* tokens[i] is defined (JavaScript index i, from 0)
Defined(i) == i >= 0 /\ i < Len(tokens)
tokAt(i)   == tokens[i + 1]
valueAt(i) == IF Defined(i) THEN tokAt(i).value ELSE <<>>
typeAt(i)  == IF Defined(i) THEN tokAt(i).type ELSE undefined

\* this.current()?.type === type
check(p, type) == Defined(p.pos) /\ tokAt(p.pos).type = type

\* as isAtEnd, without the test for a cursor past the last token
isAtEndLoose(p) == Defined(p.pos) /\ tokAt(p.pos).type = "EOF"
isAtEnd(p) == (Defined(p.pos) /\ tokAt(p.pos).type = "EOF") \/ p.pos >= Len(tokens)

advance(p) == IF Thrown(p) THEN p ELSE [p EXCEPT !.pos = @ + 1]

\* new ParserError(msg, tok?.line ?? 0, tok?.column ?? 0, tok?.value)
ParserErrorAt(i) ==
    [name   |-> "ParserError",
     line   |-> IF Defined(i) THEN tokAt(i).line ELSE 0,
     column |-> IF Defined(i) THEN tokAt(i).column ELSE 0,
     value  |-> IF Defined(i) THEN Some(tokAt(i).value) ELSE None]

TypeError == [name |-> "TypeError", line |-> 0, column |-> 0, value |-> None]

throw(p, e) == IF Thrown(p) THEN p ELSE [p EXCEPT !.thrown = Some(e)]

expect(p, type) ==
    IF Thrown(p) THEN p
    ELSE IF check(p, type) THEN advance(p)
    ELSE throw(p, ParserErrorAt(p.pos))

\* a property read on this.current() (.value, .type): a TypeError when
\* current() is undefined
deref(p) ==
    IF Thrown(p) \/ Defined(p.pos) THEN p ELSE throw(p, TypeError)

RECURSIVE skipNewlines(_)
skipNewlines(p) ==
    IF ~Thrown(p) /\ check(p, "NEWLINE") THEN skipNewlines(advance(p)) ELSE p

\* if (this.check(type)) this.advance()
accept(p, type) == IF ~Thrown(p) /\ check(p, type) THEN advance(p) ELSE p

DigitValue(c) ==
    CASE c = "0" -> 0 [] c = "1" -> 1 [] c = "2" -> 2 [] c = "3" -> 3
      [] c = "4" -> 4 [] c = "5" -> 5 [] c = "6" -> 6 [] c = "7" -> 7
      [] c = "8" -> 8 [] c = "9" -> 9

\* parseInt(s, 10) of a NUMBER token's text: the leading run of digits
RECURSIVE parseIntFrom(_, _, _)
parseIntFrom(s, i, acc) ==
    IF i <= Len(s) /\ s[i] \in Digits
    THEN parseIntFrom(s, i + 1, acc * 10 + DigitValue(s[i]))
    ELSE acc
parseInt(s) == parseIntFrom(s, 1, 0)

mapping ==
    << << <<"i","n","t">>, "int" >>,
       << <<"i","n","t","e","g","e","r">>, "int" >>,
       << <<"b","i","g","i","n","t">>, "bigint" >>,
       << <<"s","m","a","l","l","i","n","t">>, "smallint" >>,
       << <<"f","l","o","a","t">>, "float" >>,
       << <<"d","o","u","b","l","e">>, "double" >>,
       << <<"d","e","c","i","m","a","l">>, "decimal" >>,
       << <<"n","u","m","e","r","i","c">>, "decimal" >>,
       << <<"v","a","r","c","h","a","r">>, "varchar" >>,
       << <<"c","h","a","r">>, "char" >>,
       << <<"t","e","x","t">>, "text" >>,
       << <<"b","o","o","l">>, "boolean" >>,
       << <<"b","o","o","l","e","a","n">>, "boolean" >>,
       << <<"d","a","t","e">>, "date" >>,
       << <<"d","a","t","e","t","i","m","e">>, "datetime" >>,
       << <<"t","i","m","e","s","t","a","m","p">>, "timestamp" >>,
       << <<"t","i","m","e">>, "time" >>,
       << <<"u","u","i","d">>, "uuid" >>,
       << <<"j","s","o","n">>, "json" >>,
       << <<"j","s","o","n","b">>, "json" >>,
       << <<"b","l","o","b">>, "blob" >>,
       << <<"b","i","n","a","r","y">>, "blob" >>,
       << <<"e","n","u","m">>, "enum" >> >>

\* mapping[lower] ?? 'unknown'
mapColumnType(raw) ==
    LET lower == toLowerCase(raw) IN
    IF \E i \in 1..Len(mapping) : mapping[i][1] = lower
    THEN mapping[CHOOSE i \in 1..Len(mapping) : mapping[i][1] = lower][2]
    ELSE "unknown"

EmptySchema == [tables |-> <<>>, relations |-> <<>>, enums |-> <<>>, tableGroups |-> <<>>]

NoSettings ==
    [length |-> None, precision |-> None, scale |-> None, primaryKey |-> None,
     unique |-> None, notNull |-> None, autoIncrement |-> None,
     default |-> None, note |-> None, enumValues |-> None]

NoTable  == [name |-> <<>>, alias |-> None, columns |-> <<>>, indexes |-> <<>>, note |-> None]
NoColumn == [name |-> <<>>, type |-> "unknown", rawType |-> None, settings |-> NoSettings]
NoIndex  == [name |-> None, columns |-> <<>>, unique |-> None]
NoEnum   == [name |-> <<>>, values |-> <<>>]
NoGroup  == [name |-> <<>>, tables |-> <<>>]
NoCur    == [table |-> NoTable, column |-> NoColumn, idx |-> NoIndex,
             enum |-> NoEnum, group |-> NoGroup]

\* the exception leaves parse(): nothing is returned
Throw(p) ==
    /\ outcome' = p.thrown[1].name
    /\ error' = p.thrown
    /\ pos' = p.pos
    /\ pc' = "done"
    /\ UNCHANGED <<tokens, schema, cur, stmts>>

----------------------------------------------------------------------------
(* Parser.parse: the top-level loop                                        *)

Running(label) == pc = label /\ outcome = "running"

\* parse(): tokenize the input, reset the cursor, start with an empty schema
ParseStart ==
    /\ outcome = "idle"
    /\ pc = "start"
    /\ tokens' = tokenize(input)
    /\ pos' = 0
    /\ schema' = EmptySchema
    /\ pc' = "top"
    /\ outcome' = "running"
    /\ UNCHANGED hookVars
    /\ UNCHANGED <<layoutVars, diffVars, input, lexer, cur, error, stmts, vresult, graph>>

\* the cursor after `while (!isAtEnd()) { skipNewlines(); ...`
TopThread == IF isAtEnd(Thread(pos)) THEN Thread(pos) ELSE skipNewlines(Thread(pos))

\* the loop ends (condition false, or break after skipNewlines): return schema
ParseReturn ==
    /\ Running("top")
    /\ isAtEnd(TopThread)
    /\ pos' = TopThread.pos
    /\ pc' = "done"
    /\ outcome' = "returned"
    /\ UNCHANGED hookVars
    /\ UNCHANGED <<layoutVars, diffVars, input, lexer, tokens, schema, cur, error,
                   stmts, vresult, graph>>

\* the else branch of the dispatch: throw ParserError at the current token
ParseUnexpected ==
    /\ Running("top")
    /\ ~isAtEnd(TopThread)
    /\ typeAt(TopThread.pos) \notin {"TABLE", "ENUM", "REF", "TABLEGROUP"}
    /\ Throw(throw(TopThread, ParserErrorAt(TopThread.pos)))
    /\ UNCHANGED hookVars
    /\ UNCHANGED <<layoutVars, diffVars, input, lexer, vresult, graph>>

\* parseTable up to the body loop
ParseTableHead ==
    /\ Running("top")
    /\ check(TopThread, "TABLE")
    /\ LET p1 == expect(TopThread, "TABLE")
           p2 == expect(p1, "IDENTIFIER")
           hasAlias == ~Thrown(p2) /\ check(p2, "AS")
           p3 == IF hasAlias THEN advance(p2) ELSE p2
           p4 == IF hasAlias THEN expect(p3, "IDENTIFIER") ELSE p3
           p5 == expect(p4, "LBRACE")
           p6 == skipNewlines(p5)
       IN  IF Thrown(p6)
           THEN /\ outcome' = p6.thrown[1].name
                /\ error' = p6.thrown
                /\ pos' = p6.pos
                /\ pc' = "done"
                /\ cur' = cur
           ELSE /\ pos' = p6.pos
                /\ pc' = "tableBody"
                /\ cur' = [cur EXCEPT !.table =
                             [NoTable EXCEPT !.name = valueAt(p1.pos),
                                             !.alias = IF hasAlias THEN Some(valueAt(p3.pos))
                                                                   ELSE None]]
                /\ UNCHANGED <<outcome, error>>
    /\ stmts' = Append(stmts, [kind |-> "Table", at |-> TopThread.pos])
    /\ UNCHANGED hookVars
    /\ UNCHANGED <<layoutVars, diffVars, input, lexer, tokens, schema, vresult, graph>>

\* parseEnum up to the body loop
ParseEnumHead ==
    /\ Running("top")
    /\ check(TopThread, "ENUM")
    /\ LET p1 == expect(TopThread, "ENUM")
           p2 == expect(p1, "IDENTIFIER")
           p3 == expect(p2, "LBRACE")
           p4 == skipNewlines(p3)
       IN  IF Thrown(p4)
           THEN /\ outcome' = p4.thrown[1].name
                /\ error' = p4.thrown
                /\ pos' = p4.pos
                /\ pc' = "done"
                /\ cur' = cur
           ELSE /\ pos' = p4.pos
                /\ pc' = "enumBody"
                /\ cur' = [cur EXCEPT !.enum = [NoEnum EXCEPT !.name = valueAt(p1.pos)]]
                /\ UNCHANGED <<outcome, error>>
    /\ stmts' = Append(stmts, [kind |-> "Enum", at |-> TopThread.pos])
    /\ UNCHANGED hookVars
    /\ UNCHANGED <<layoutVars, diffVars, input, lexer, tokens, schema, vresult, graph>>

\* parseTableGroup up to the body loop
ParseTableGroupHead ==
    /\ Running("top")
    /\ check(TopThread, "TABLEGROUP")
    /\ LET p1 == expect(TopThread, "TABLEGROUP")
           p2 == expect(p1, "IDENTIFIER")
           p3 == expect(p2, "LBRACE")
           p4 == skipNewlines(p3)
       IN  IF Thrown(p4)
           THEN /\ outcome' = p4.thrown[1].name
                /\ error' = p4.thrown
                /\ pos' = p4.pos
                /\ pc' = "done"
                /\ cur' = cur
           ELSE /\ pos' = p4.pos
                /\ pc' = "tableGroupBody"
                /\ cur' = [cur EXCEPT !.group = [NoGroup EXCEPT !.name = valueAt(p1.pos)]]
                /\ UNCHANGED <<outcome, error>>
    /\ stmts' = Append(stmts, [kind |-> "TableGroup", at |-> TopThread.pos])
    /\ UNCHANGED hookVars
    /\ UNCHANGED <<layoutVars, diffVars, input, lexer, tokens, schema, vresult, graph>>

\* parseTableColumn: IDENTIFIER DOT IDENTIFIER
parseTableColumn(p) ==
    LET p1 == expect(p, "IDENTIFIER")
        p2 == expect(p1, "DOT")
        p3 == expect(p2, "IDENTIFIER")
    IN  [p |-> p3, table |-> valueAt(p.pos), column |-> valueAt(p2.pos)]

\* as RelationTypeOf, the case of '>' missing (it falls to the default)
RelationTypeOfNoManyToOne(type) ==
    CASE type = "REL_ONE_TO_ONE"   -> "one-to-one"
      [] type = "REL_ONE_TO_MANY"  -> "one-to-many"
      [] type = "REL_MANY_TO_MANY" -> "many-to-many"
      [] OTHER                     -> "one-to-many"

RelationTypeOf(type) ==
    CASE type = "REL_ONE_TO_ONE"   -> "one-to-one"
      [] type = "REL_ONE_TO_MANY"  -> "one-to-many"
      [] type = "REL_MANY_TO_ONE"  -> "many-to-one"
      [] type = "REL_MANY_TO_MANY" -> "many-to-many"
      [] OTHER                     -> "one-to-many"

\* parseRelationType: read the current token, advance, switch on its type
parseRelationType(p) ==
    LET p1 == deref(p)
    IN  [p |-> advance(p1), type |-> RelationTypeOf(typeAt(p.pos))]

\* parseRef, whole (it has no loop)
ParseRef ==
    /\ Running("top")
    /\ check(TopThread, "REF")
    /\ LET p1 == expect(TopThread, "REF")
           named == /\ ~Thrown(p1)
                    /\ check(p1, "IDENTIFIER")
                    /\ typeAt(p1.pos + 1) = "COLON"
           p2 == IF named THEN expect(p1, "IDENTIFIER") ELSE p1
           p3 == accept(p2, "COLON")
           from == parseTableColumn(p3)
           rel  == parseRelationType(from.p)
           to   == parseTableColumn(rel.p)
       IN  IF Thrown(to.p)
           THEN /\ outcome' = to.p.thrown[1].name
                /\ error' = to.p.thrown
                /\ pos' = to.p.pos
                /\ pc' = "done"
                /\ schema' = schema
           ELSE /\ pos' = to.p.pos
                /\ pc' = "top"
                /\ schema' = [schema EXCEPT !.relations = Append(@,
                       [name |-> IF named THEN Some(valueAt(p1.pos)) ELSE None,
                        from |-> [table |-> from.table, column |-> from.column],
                        to   |-> [table |-> to.table, column |-> to.column],
                        type |-> rel.type])]
                /\ UNCHANGED <<outcome, error>>
    /\ stmts' = Append(stmts, [kind |-> "Ref", at |-> TopThread.pos])
    /\ UNCHANGED hookVars
    /\ UNCHANGED <<layoutVars, diffVars, input, lexer, tokens, cur, vresult, graph>>

----------------------------------------------------------------------------
(* parseTable: the body loop, parseNote, parseColumn                       *)

InTableBody == Running("tableBody") /\ ~check(Thread(pos), "RBRACE") /\ ~isAtEnd(Thread(pos))

\* commit a step of the parser that may have thrown: on success the cursor,
\* the loop and the object under construction are updated
Commit(p, label, c) ==
    IF Thrown(p)
    THEN /\ outcome' = p.thrown[1].name
         /\ error' = p.thrown
         /\ pos' = p.pos
         /\ pc' = "done"
         /\ cur' = cur
    ELSE /\ pos' = p.pos
         /\ pc' = label
         /\ cur' = c
         /\ UNCHANGED <<outcome, error>>

\* body: `indexes` starts parseIndexes (up to its loop)
TableIndexes ==
    /\ InTableBody
    /\ check(Thread(pos), "INDEXES")
    /\ LET p1 == expect(Thread(pos), "INDEXES")
           p2 == expect(p1, "LBRACE")
           p3 == skipNewlines(p2)
       IN  Commit(p3, "indexes", cur)
    /\ UNCHANGED hookVars
    /\ UNCHANGED <<layoutVars, diffVars, input, lexer, tokens, schema, stmts, vresult, graph>>

\* body: table.note = parseNote(); skipNewlines()
TableNote ==
    /\ InTableBody
    /\ check(Thread(pos), "NOTE")
    /\ LET p1 == expect(Thread(pos), "NOTE")
           p2 == accept(p1, "COLON")
           p3 == expect(p2, "STRING")
           p4 == skipNewlines(p3)
       IN  Commit(p4, "tableBody", [cur EXCEPT !.table.note = Some(valueAt(p2.pos))])
    /\ UNCHANGED hookVars
    /\ UNCHANGED <<layoutVars, diffVars, input, lexer, tokens, schema, stmts, vresult, graph>>

\* body: parseColumn up to its settings loop; a column without a settings
\* bracket is complete and pushed
TableColumn ==
    /\ InTableBody
    /\ check(Thread(pos), "IDENTIFIER")
    /\ LET p0 == Thread(pos)
           p1 == expect(p0, "IDENTIFIER")
           p2 == expect(p1, "IDENTIFIER")
           rawType  == valueAt(p1.pos)
           hasParen == ~Thrown(p2) /\ check(p2, "LPAREN")
           p3 == IF hasParen THEN advance(p2) ELSE p2
           p4 == IF hasParen THEN expect(p3, "NUMBER") ELSE p3
           first    == parseInt(valueAt(p3.pos))
           hasComma == hasParen /\ ~Thrown(p4) /\ check(p4, "COMMA")
           p5 == IF hasComma THEN advance(p4) ELSE p4
           p6 == IF hasComma THEN expect(p5, "NUMBER") ELSE p5
           p7 == IF hasParen THEN expect(p6, "RPAREN") ELSE p6
           column ==
               [name |-> valueAt(p0.pos), type |-> mapColumnType(rawType),
                rawType |-> Some(rawType),
                settings |-> [NoSettings EXCEPT
                    !.length    = IF hasParen /\ ~hasComma THEN Some(first) ELSE None,
                    !.precision = IF hasComma THEN Some(first) ELSE None,
                    !.scale     = IF hasComma THEN Some(parseInt(valueAt(p5.pos)))
                                              ELSE None]]
       IN  IF ~Thrown(p7) /\ check(p7, "LBRACKET")
           THEN Commit(advance(p7), "columnSettings", [cur EXCEPT !.column = column])
           ELSE Commit(skipNewlines(p7), "tableBody",
                       [cur EXCEPT !.table.columns = Append(@, column)])
    /\ UNCHANGED hookVars
    /\ UNCHANGED <<layoutVars, diffVars, input, lexer, tokens, schema, stmts, vresult, graph>>

\* body: any other token is skipped by a single advance
TableSkip ==
    /\ InTableBody
    /\ typeAt(pos) \notin {"INDEXES", "NOTE", "IDENTIFIER"}
    /\ Commit(skipNewlines(advance(Thread(pos))), "tableBody", cur)
    /\ UNCHANGED hookVars
    /\ UNCHANGED <<layoutVars, diffVars, input, lexer, tokens, schema, stmts, vresult, graph>>

\* the body loop ends: expect('RBRACE'), the table is pushed
TableEnd ==
    /\ Running("tableBody")
    /\ check(Thread(pos), "RBRACE") \/ isAtEnd(Thread(pos))
    /\ LET p1 == expect(Thread(pos), "RBRACE")
       IN  /\ Commit(p1, "top", [cur EXCEPT !.table = NoTable])
           /\ schema' = IF Thrown(p1) THEN schema
                        ELSE [schema EXCEPT !.tables = Append(@, cur.table)]
    /\ UNCHANGED hookVars
    /\ UNCHANGED <<layoutVars, diffVars, input, lexer, tokens, stmts, vresult, graph>>

W_null  == <<"n","u","l","l">>
W_true  == <<"t","r","u","e">>
W_false == <<"f","a","l","s","e">>

\* parseDefaultValue's result for the token at i; a NUMBER keeps its text,
\* the value being parseFloat of it
DefaultValueOf(i) ==
    LET lower == toLowerCase(valueAt(i)) IN
    IF typeAt(i) = "STRING" THEN [kind |-> "string", text |-> valueAt(i)]
    ELSE IF typeAt(i) = "NUMBER" THEN [kind |-> "number", text |-> valueAt(i)]
    ELSE IF lower = W_null THEN [kind |-> "null", text |-> <<>>]
    ELSE IF lower = W_true THEN [kind |-> "boolean", text |-> W_true]
    ELSE IF lower = W_false THEN [kind |-> "boolean", text |-> W_false]
    ELSE [kind |-> "string", text |-> valueAt(i)]

\* parseDefaultValue: read the current token, advance, inspect tok.type
parseDefaultValue(p) ==
    [p |-> advance(deref(p)), value |-> DefaultValueOf(p.pos)]

InColumnSettings ==
    Running("columnSettings") /\ ~check(Thread(pos), "RBRACKET") /\ ~isAtEnd(Thread(pos))

\* one iteration of the settings loop of parseColumn
ColumnSetting ==
    /\ InColumnSettings
    /\ LET p0 == deref(Thread(pos))
           settingName == toLowerCase(valueAt(pos))
           p1 == advance(p0)
           isPk   == settingName \in {<<"p","k">>, <<"p","r","i","m","a","r","y">>,
                                      <<"p","r","i","m","a","r","y","_","k","e","y">>}
           isUniq == settingName = <<"u","n","i","q","u","e">>
           isNot  == settingName = <<"n","o","t">>
           \* settingName === 'not' && this.current().value.toLowerCase() === 'null'
           pn     == IF ~isPk /\ ~isUniq /\ isNot THEN deref(p1) ELSE p1
           isNotNull == ~isPk /\ ~isUniq /\ isNot /\ ~Thrown(pn)
                        /\ toLowerCase(valueAt(p1.pos)) = W_null
           isNN   == settingName \in {<<"n","o","t","n","u","l","l">>,
                                      <<"n","o","t","_","n","u","l","l">>}
           isInc  == settingName \in {<<"i","n","c","r","e","m","e","n","t">>,
                        <<"a","u","t","o","_","i","n","c","r","e","m","e","n","t">>}
           isDef  == settingName = <<"d","e","f","a","u","l","t">>
           isNote == settingName = <<"n","o","t","e">>
           branch == IF isPk THEN "pk" ELSE IF isUniq THEN "unique"
                     ELSE IF isNotNull THEN "not null" ELSE IF isNN THEN "notnull"
                     ELSE IF isInc THEN "increment" ELSE IF isDef THEN "default"
                     ELSE IF isNote THEN "note" ELSE "none"
           pc1 == accept(pn, "COLON")
           def == parseDefaultValue(pc1)
           p2 == CASE branch = "not null" -> advance(pn)
                   [] branch = "default"  -> def.p
                   [] branch = "note"     -> expect(pc1, "STRING")
                   [] OTHER               -> pn
           p3 == accept(p2, "COMMA")
           st == cur.column.settings
           settings ==
               CASE branch = "pk"        -> [st EXCEPT !.primaryKey = Some(TRUE)]
                 [] branch = "unique"    -> [st EXCEPT !.unique = Some(TRUE)]
                 [] branch = "not null"  -> [st EXCEPT !.notNull = Some(TRUE)]
                 [] branch = "notnull"   -> [st EXCEPT !.notNull = Some(TRUE)]
                 [] branch = "increment" -> [st EXCEPT !.autoIncrement = Some(TRUE)]
                 [] branch = "default"   -> [st EXCEPT !.default = Some(def.value)]
                 [] branch = "note"      -> [st EXCEPT !.note = Some(valueAt(pc1.pos))]
                 [] OTHER                -> st
       IN  Commit(p3, "columnSettings", [cur EXCEPT !.column.settings = settings])
    /\ UNCHANGED hookVars
    /\ UNCHANGED <<layoutVars, diffVars, input, lexer, tokens, schema, stmts, vresult, graph>>

\* the settings loop ends: expect('RBRACKET'), the column is returned and
\* pushed, then the body loop's skipNewlines()
ColumnEnd ==
    /\ Running("columnSettings")
    /\ check(Thread(pos), "RBRACKET") \/ isAtEnd(Thread(pos))
    /\ LET p1 == expect(Thread(pos), "RBRACKET")
           p2 == skipNewlines(p1)
       IN  Commit(p2, "tableBody",
                  [cur EXCEPT !.table.columns = Append(@, cur.column),
                              !.column = NoColumn])
    /\ UNCHANGED hookVars
    /\ UNCHANGED <<layoutVars, diffVars, input, lexer, tokens, schema, stmts, vresult, graph>>

----------------------------------------------------------------------------
(* parseIndexes                                                            *)

\* the most index entries one table may collect in the model
MaxIndexes == 8

InIndexes == Running("indexes") /\ ~check(Thread(pos), "RBRACE") /\ ~isAtEnd(Thread(pos))

\* after the column part of an index entry: the optional settings bracket,
\* else table.indexes.push(idx); skipNewlines()
IndexAfterColumns(p, idx) ==
    IF ~Thrown(p) /\ check(p, "LBRACKET")
    THEN Commit(advance(p), "indexSettings", [cur EXCEPT !.idx = idx])
    ELSE Commit(skipNewlines(p), "indexes",
                [cur EXCEPT !.table.indexes = Append(@, idx), !.idx = NoIndex])

\* one iteration of the loop of parseIndexes, up to an inner loop if any
IndexEntry ==
    /\ InIndexes
    /\ Len(cur.table.indexes) < MaxIndexes
    /\ LET p0 == Thread(pos)
       IN  IF check(p0, "LPAREN")
           THEN Commit(advance(p0), "indexColumns", [cur EXCEPT !.idx = NoIndex])
           ELSE IF check(p0, "IDENTIFIER")
           THEN IndexAfterColumns(expect(p0, "IDENTIFIER"),
                                  [NoIndex EXCEPT !.columns = <<valueAt(pos)>>])
           ELSE IndexAfterColumns(p0, NoIndex)
    /\ UNCHANGED hookVars
    /\ UNCHANGED <<layoutVars, diffVars, input, lexer, tokens, schema, stmts, vresult, graph>>

\* the loop of parseIndexes ends: expect('RBRACE'), back in the table body
IndexesEnd ==
    /\ Running("indexes")
    /\ check(Thread(pos), "RBRACE") \/ isAtEnd(Thread(pos))
    /\ Commit(skipNewlines(expect(Thread(pos), "RBRACE")), "tableBody", cur)
    /\ UNCHANGED hookVars
    /\ UNCHANGED <<layoutVars, diffVars, input, lexer, tokens, schema, stmts, vresult, graph>>

InIndexColumns ==
    Running("indexColumns") /\ ~check(Thread(pos), "RPAREN") /\ ~isAtEnd(Thread(pos))

\* one iteration of the (col1, col2) loop
IndexColumn ==
    /\ InIndexColumns
    /\ LET p1 == expect(Thread(pos), "IDENTIFIER")
           p2 == accept(p1, "COMMA")
       IN  Commit(p2, "indexColumns", [cur EXCEPT !.idx.columns = Append(@, valueAt(pos))])
    /\ UNCHANGED hookVars
    /\ UNCHANGED <<layoutVars, diffVars, input, lexer, tokens, schema, stmts, vresult, graph>>

\* the (col1, col2) loop ends: expect('RPAREN'), then the settings part
IndexColumnsEnd ==
    /\ Running("indexColumns")
    /\ check(Thread(pos), "RPAREN") \/ isAtEnd(Thread(pos))
    /\ IndexAfterColumns(expect(Thread(pos), "RPAREN"), cur.idx)
    /\ UNCHANGED hookVars
    /\ UNCHANGED <<layoutVars, diffVars, input, lexer, tokens, schema, stmts, vresult, graph>>

InIndexSettings ==
    Running("indexSettings") /\ ~check(Thread(pos), "RBRACKET") /\ ~isAtEnd(Thread(pos))

\* one iteration of the index settings loop
IndexSetting ==
    /\ InIndexSettings
    /\ LET p0 == deref(Thread(pos))
           s  == toLowerCase(valueAt(pos))
           p1 == advance(p0)
           isName == s = <<"n","a","m","e">>
           p2 == IF isName THEN accept(p1, "COLON") ELSE p1
           p3 == IF isName THEN expect(p2, "STRING") ELSE p2
           p4 == accept(p3, "COMMA")
           i1 == IF s = <<"u","n","i","q","u","e">>
                 THEN [cur.idx EXCEPT !.unique = Some(TRUE)] ELSE cur.idx
           i2 == IF isName THEN [i1 EXCEPT !.name = Some(valueAt(p2.pos))] ELSE i1
       IN  Commit(p4, "indexSettings", [cur EXCEPT !.idx = i2])
    /\ UNCHANGED hookVars
    /\ UNCHANGED <<layoutVars, diffVars, input, lexer, tokens, schema, stmts, vresult, graph>>

\* the index settings loop ends: expect('RBRACKET'), push, skipNewlines()
IndexSettingsEnd ==
    /\ Running("indexSettings")
    /\ check(Thread(pos), "RBRACKET") \/ isAtEnd(Thread(pos))
    /\ LET p1 == expect(Thread(pos), "RBRACKET")
       IN  Commit(skipNewlines(p1), "indexes",
                  [cur EXCEPT !.table.indexes = Append(@, cur.idx), !.idx = NoIndex])
    /\ UNCHANGED hookVars
    /\ UNCHANGED <<layoutVars, diffVars, input, lexer, tokens, schema, stmts, vresult, graph>>

----------------------------------------------------------------------------
(* parseEnum and parseTableGroup: the body loops                           *)

InEnumBody == Running("enumBody") /\ ~check(Thread(pos), "RBRACE") /\ ~isAtEnd(Thread(pos))

\* one iteration of the enum body loop
EnumValue ==
    /\ InEnumBody
    /\ LET p1 == expect(Thread(pos), "IDENTIFIER")
           hasBracket == ~Thrown(p1) /\ check(p1, "LBRACKET")
           p2 == IF hasBracket THEN deref(advance(p1)) ELSE p1
           hasNote == hasBracket /\ ~Thrown(p2)
                      /\ toLowerCase(valueAt(p2.pos)) = <<"n","o","t","e">>
           p3 == IF hasNote THEN accept(advance(p2), "COLON") ELSE p2
           p4 == IF hasNote THEN expect(p3, "STRING") ELSE p3
           p5 == IF hasBracket THEN expect(p4, "RBRACKET") ELSE p4
           p6 == skipNewlines(p5)
           val == [name |-> valueAt(pos),
                   note |-> IF hasNote THEN Some(valueAt(p3.pos)) ELSE None]
       IN  Commit(p6, "enumBody", [cur EXCEPT !.enum.values = Append(@, val)])
    /\ UNCHANGED hookVars
    /\ UNCHANGED <<layoutVars, diffVars, input, lexer, tokens, schema, stmts, vresult, graph>>

\* the enum body loop ends: expect('RBRACE'), the enum is pushed
EnumEnd ==
    /\ Running("enumBody")
    /\ check(Thread(pos), "RBRACE") \/ isAtEnd(Thread(pos))
    /\ LET p1 == expect(Thread(pos), "RBRACE")
       IN  /\ Commit(p1, "top", [cur EXCEPT !.enum = NoEnum])
           /\ schema' = IF Thrown(p1) THEN schema
                        ELSE [schema EXCEPT !.enums = Append(@, cur.enum)]
    /\ UNCHANGED hookVars
    /\ UNCHANGED <<layoutVars, diffVars, input, lexer, tokens, stmts, vresult, graph>>

InTableGroupBody ==
    Running("tableGroupBody") /\ ~check(Thread(pos), "RBRACE") /\ ~isAtEnd(Thread(pos))

\* one iteration of the table-group body loop
TableGroupEntry ==
    /\ InTableGroupBody
    /\ LET p1 == expect(Thread(pos), "IDENTIFIER")
       IN  Commit(skipNewlines(p1), "tableGroupBody",
                  [cur EXCEPT !.group.tables = Append(@, valueAt(pos))])
    /\ UNCHANGED hookVars
    /\ UNCHANGED <<layoutVars, diffVars, input, lexer, tokens, schema, stmts, vresult, graph>>

\* the table-group body loop ends: expect('RBRACE'), the group is pushed
TableGroupEnd ==
    /\ Running("tableGroupBody")
    /\ check(Thread(pos), "RBRACE") \/ isAtEnd(Thread(pos))
    /\ LET p1 == expect(Thread(pos), "RBRACE")
       IN  /\ Commit(p1, "top", [cur EXCEPT !.group = NoGroup])
           /\ schema' = IF Thrown(p1) THEN schema
                        ELSE [schema EXCEPT !.tableGroups = Append(@, cur.group)]
    /\ UNCHANGED hookVars
    /\ UNCHANGED <<layoutVars, diffVars, input, lexer, tokens, stmts, vresult, graph>>

----------------------------------------------------------------------------
(* Validator                                                               *)

RECURSIVE Flatten(_)
Flatten(ss) == IF ss = <<>> THEN <<>> ELSE Head(ss) \o Flatten(Tail(ss))

Names(seq) == {seq[i].name : i \in 1..Len(seq)}

\* the entries pushed while visiting column j of table t
ColumnFindings(sch, t, j) ==
    LET col == t.columns[j]
        enumNames == Names(sch.enums)
    IN  (IF \E k \in 1..(j - 1) : t.columns[k].name = col.name
         THEN <<[type |-> "error", message |-> "Duplicate column",
                 subject |-> col.name,
                 location |-> [table |-> Some(t.name), column |-> Some(col.name),
                               relation |-> None]]>>
         ELSE <<>>)
        \o
        (IF /\ col.type = "enum"
            /\ col.settings.enumValues = None
            /\ col.rawType # None
            /\ col.rawType[1] # <<>>
            /\ col.rawType[1] \notin enumNames
         THEN <<[type |-> "warning", message |-> "references unknown enum",
                 subject |-> col.rawType[1],
                 location |-> [table |-> Some(t.name), column |-> Some(col.name),
                               relation |-> None]]>>
         ELSE <<>>)

\* the entries pushed while visiting table i
TableFindings(sch, i) ==
    LET t == sch.tables[i]
    IN  (IF \E k \in 1..(i - 1) : sch.tables[k].name = t.name
         THEN <<[type |-> "error", message |-> "Duplicate table name",
                 subject |-> t.name,
                 location |-> [table |-> Some(t.name), column |-> None,
                               relation |-> None]]>>
         ELSE <<>>)
        \o Flatten([j \in 1..Len(t.columns) |-> ColumnFindings(sch, t, j)])
        \o
        (IF \E j \in 1..Len(t.columns) : t.columns[j].settings.primaryKey \in {Some(TRUE)}
         THEN <<>>
         ELSE <<[type |-> "warning", message |-> "has no primary key",
                 subject |-> t.name,
                 location |-> [table |-> Some(t.name), column |-> None,
                               relation |-> None]]>>)

\* tableColumnMap.get(name): the column names of the last table of that name
TableColumnMap(sch, name) ==
    LET last == CHOOSE i \in 1..Len(sch.tables) :
                    /\ sch.tables[i].name = name
                    /\ \A k \in (i + 1)..Len(sch.tables) : sch.tables[k].name # name
    IN  Names(sch.tables[last].columns)

\* the entries pushed for one endpoint of a relation
EndpointFindings(sch, rel, end) ==
    LET loc == [table |-> None, column |-> None,
                relation |-> IF rel.name # None THEN rel.name
                             ELSE Some(end.table \o <<".">> \o end.column)]
    IN  IF end.table \notin Names(sch.tables)
        THEN <<[type |-> "error", message |-> "Relation references non-existent table",
                subject |-> end.table, location |-> loc]>>
        ELSE IF end.column \notin TableColumnMap(sch, end.table)
        THEN <<[type |-> "error", message |-> "Relation references non-existent column",
                subject |-> end.table \o <<".">> \o end.column, location |-> loc]>>
        ELSE <<>>

\* as RelationFindings, the second endpoint checked only when the first is fine
RelationFindingsShortCircuit(sch, i) ==
    LET first == EndpointFindings(sch, sch.relations[i], sch.relations[i].from)
    IN  IF first # <<>> THEN first
        ELSE EndpointFindings(sch, sch.relations[i], sch.relations[i].to)

RelationFindings(sch, i) ==
    EndpointFindings(sch, sch.relations[i], sch.relations[i].from)
    \o EndpointFindings(sch, sch.relations[i], sch.relations[i].to)

GroupFindings(sch, i) ==
    LET g == sch.tableGroups[i]
        one(k) == IF g.tables[k] \notin Names(sch.tables)
                  THEN <<[type |-> "warning", message |-> "references unknown table",
                          subject |-> g.tables[k],
                          location |-> [table |-> None, column |-> None,
                                        relation |-> None]]>>
                  ELSE <<>>
    IN  Flatten([k \in 1..Len(g.tables) |-> one(k)])

\* as validateSchema, valid computed from all entries, warnings included
validateSchemaCountingWarnings(sch) ==
    LET errors ==
            Flatten([i \in 1..Len(sch.tables) |-> TableFindings(sch, i)])
            \o Flatten([i \in 1..Len(sch.relations) |-> RelationFindings(sch, i)])
            \o Flatten([i \in 1..Len(sch.tableGroups) |-> GroupFindings(sch, i)])
    IN  [valid  |-> errors = <<>>, errors |-> errors]

validateSchema(sch) ==
    LET errors ==
            Flatten([i \in 1..Len(sch.tables) |-> TableFindings(sch, i)])
            \o Flatten([i \in 1..Len(sch.relations) |-> RelationFindings(sch, i)])
            \o Flatten([i \in 1..Len(sch.tableGroups) |-> GroupFindings(sch, i)])
    IN  [valid  |-> \A i \in 1..Len(errors) : errors[i].type # "error",
         errors |-> errors]

\* validateSchema applied to the schema that was produced
Validate ==
    /\ outcome = "returned"
    /\ vresult = None
    /\ vresult' = Some(validateSchema(schema))
    /\ UNCHANGED hookVars
    /\ UNCHANGED <<layoutVars, diffVars, input, lexer, tokens, pos, schema, pc, cur, outcome, error,
                   stmts, graph>>

----------------------------------------------------------------------------
(* Graph Builder                                                           *)

NODE_DEFAULTS ==
    [headerHeight |-> 32, columnHeight |-> 24, minWidth |-> 180,
     padding |-> 8, charWidth |-> 8]

Max(a, b) == IF a >= b THEN a ELSE b

\* the text of a ColumnType
TypeText(t) ==
    CASE t = "int" -> <<"i","n","t">>
      [] t = "bigint" -> <<"b","i","g","i","n","t">>
      [] t = "smallint" -> <<"s","m","a","l","l","i","n","t">>
      [] t = "float" -> <<"f","l","o","a","t">>
      [] t = "double" -> <<"d","o","u","b","l","e">>
      [] t = "decimal" -> <<"d","e","c","i","m","a","l">>
      [] t = "varchar" -> <<"v","a","r","c","h","a","r">>
      [] t = "char" -> <<"c","h","a","r">>
      [] t = "text" -> <<"t","e","x","t">>
      [] t = "boolean" -> <<"b","o","o","l","e","a","n">>
      [] t = "date" -> <<"d","a","t","e">>
      [] t = "datetime" -> <<"d","a","t","e","t","i","m","e">>
      [] t = "timestamp" -> <<"t","i","m","e","s","t","a","m","p">>
      [] t = "time" -> <<"t","i","m","e">>
      [] t = "uuid" -> <<"u","u","i","d">>
      [] t = "json" -> <<"j","s","o","n">>
      [] t = "blob" -> <<"b","l","o","b">>
      [] t = "enum" -> <<"e","n","u","m">>
      [] t = "unknown" -> <<"u","n","k","n","o","w","n">>

\* the `table.column` key
ColKey(tableName, colName) == tableName \o <<".">> \o colName

\* as fkColumns, both endpoints of a relation recorded
fkColumnsBothEnds(sch) ==
    {ColKey(sch.relations[i].from.table, sch.relations[i].from.column) :
        i \in 1..Len(sch.relations)}
    \cup {ColKey(sch.relations[i].to.table, sch.relations[i].to.column) :
        i \in 1..Len(sch.relations)}

fkColumns(sch) ==
    {ColKey(sch.relations[i].from.table, sch.relations[i].from.column) :
        i \in 1..Len(sch.relations)}

buildColumnNode(tableName, col, fk, offsetY) ==
    [id           |-> ColKey(tableName, col.name),
     name         |-> col.name,
     type         |-> IF col.rawType # None THEN col.rawType[1] ELSE TypeText(col.type),
     isPrimaryKey |-> IF col.settings.primaryKey # None THEN col.settings.primaryKey[1]
                                                        ELSE FALSE,
     isForeignKey |-> ColKey(tableName, col.name) \in fk,
     isUnique     |-> IF col.settings.unique # None THEN col.settings.unique[1] ELSE FALSE,
     isNullable   |-> ~(IF col.settings.notNull # None THEN col.settings.notNull[1]
                                                       ELSE FALSE),
     offsetY      |-> offsetY]

RECURSIVE maxTextLenFrom(_, _, _)
maxTextLenFrom(columns, j, acc) ==
    IF j > Len(columns) THEN acc
    ELSE LET textLen == Len(columns[j].name) + Len(columns[j].type) + 3
         IN  maxTextLenFrom(columns, j + 1, IF textLen > acc THEN textLen ELSE acc)

computeNodeSize(table, columns) ==
    LET maxTextLen == maxTextLenFrom(columns, 1, Len(table.name))
    IN  [width  |-> Max(NODE_DEFAULTS.minWidth,
                         maxTextLen * NODE_DEFAULTS.charWidth + NODE_DEFAULTS.padding * 2),
         height |-> NODE_DEFAULTS.headerHeight + Len(columns) * NODE_DEFAULTS.columnHeight
                    + NODE_DEFAULTS.padding]

buildTableNode(table, fk) ==
    LET columns == [j \in 1..Len(table.columns) |->
                       buildColumnNode(table.name, table.columns[j], fk,
                                       NODE_DEFAULTS.headerHeight
                                           + (j - 1) * NODE_DEFAULTS.columnHeight)]
    IN  [id |-> table.name, name |-> table.name,
         position |-> [x |-> 0, y |-> 0],
         size |-> computeNodeSize(table, columns),
         columns |-> columns, note |-> table.note,
         collapsed |-> FALSE, selected |-> FALSE, group |-> None]

\* as buildEdge, the column ids being the bare column names
buildEdgeBareColumn(rel) ==
    [id |-> IF rel.name # None THEN rel.name[1]
            ELSE ColKey(rel.from.table, rel.from.column) \o <<"-", ">">>
                 \o ColKey(rel.to.table, rel.to.column),
     from |-> [nodeId |-> rel.from.table, columnId |-> rel.from.column],
     to   |-> [nodeId |-> rel.to.table, columnId |-> rel.to.column],
     type |-> rel.type, selected |-> FALSE]

buildEdge(rel) ==
    [id |-> IF rel.name # None THEN rel.name[1]
            ELSE ColKey(rel.from.table, rel.from.column) \o <<"-", ">">>
                 \o ColKey(rel.to.table, rel.to.column),
     from |-> [nodeId |-> rel.from.table,
               columnId |-> ColKey(rel.from.table, rel.from.column)],
     to   |-> [nodeId |-> rel.to.table,
               columnId |-> ColKey(rel.to.table, rel.to.column)],
     type |-> rel.type, selected |-> FALSE]

\* as assignGroups, a node keeping the first group that lists it
RECURSIVE assignGroupsFirstWins(_, _, _)
assignGroupsFirstWins(nodes, groups, i) ==
    IF i > Len(groups) THEN nodes
    ELSE LET tg == groups[i]
             listed == {tg.tables[k] : k \in 1..Len(tg.tables)}
             first(n) == \A m \in 1..(n - 1) : nodes[m].name # nodes[n].name
             upd == [n \in 1..Len(nodes) |->
                        IF nodes[n].name \in listed /\ first(n) /\ nodes[n].group = None
                        THEN [nodes[n] EXCEPT !.group = Some(tg.name)]
                        ELSE nodes[n]]
         IN  assignGroupsFirstWins(upd, groups, i + 1)

\* node.group after the groups loop: for every listed table name the first
\* node of that name is assigned, later groups overwriting earlier ones
RECURSIVE assignGroups(_, _, _)
assignGroups(nodes, groups, i) ==
    IF i > Len(groups) THEN nodes
    ELSE LET tg == groups[i]
             listed == {tg.tables[k] : k \in 1..Len(tg.tables)}
             first(n) == \A m \in 1..(n - 1) : nodes[m].name # nodes[n].name
             upd == [n \in 1..Len(nodes) |->
                        IF nodes[n].name \in listed /\ first(n)
                        THEN [nodes[n] EXCEPT !.group = Some(tg.name)]
                        ELSE nodes[n]]
         IN  assignGroups(upd, groups, i + 1)

\* as buildNodes, the nodes kept in a map keyed by id: one node per name
buildNodesById(sch) ==
    LET firsts == SelectSeq([i \in 1..Len(sch.tables) |-> i],
                            LAMBDA i : \A k \in 1..(i - 1) :
                                          sch.tables[k].name # sch.tables[i].name)
    IN  [j \in 1..Len(firsts) |-> buildTableNode(sch.tables[firsts[j]], fkColumns(sch))]

buildNodes(sch) ==
    [i \in 1..Len(sch.tables) |-> buildTableNode(sch.tables[i], fkColumns(sch))]

buildEdges(sch) ==
    [i \in 1..Len(sch.relations) |-> buildEdge(sch.relations[i])]

buildGraph(sch) ==
    [nodes  |-> assignGroups(buildNodes(sch), sch.tableGroups, 1),
     edges  |-> buildEdges(sch),
     groups |-> [i \in 1..Len(sch.tableGroups) |->
                    [id |-> sch.tableGroups[i].name, name |-> sch.tableGroups[i].name,
                     nodeIds |-> sch.tableGroups[i].tables,
                     collapsed |-> FALSE, selected |-> FALSE]],
     notes  |-> <<>>]

\* buildGraph applied to the schema that was produced
Build ==
    /\ outcome = "returned"
    /\ graph = None
    /\ graph' = Some(buildGraph(schema))
    /\ UNCHANGED hookVars
    /\ UNCHANGED <<layoutVars, diffVars, input, lexer, tokens, pos, schema, pc, cur, outcome, error,
                   stmts, vresult>>

----------------------------------------------------------------------------
(* Graph bounds                                                            *)

Min(a, b) == IF a <= b THEN a ELSE b

MinOf(S) == CHOOSE v \in S : \A w \in S : v <= w
MaxOf(S) == CHOOSE v \in S : \A w \in S : v >= w

\* as Extent, the rectangle of the first node only
ExtentOfFirst(ns) ==
    [minX |-> ns[1].position.x,
     minY |-> ns[1].position.y,
     maxX |-> ns[1].position.x + ns[1].size.width,
     maxY |-> ns[1].position.y + ns[1].size.height]

\* the rectangle around the nodes ns (a non-empty sequence), as
\* [minX, minY, maxX, maxY]
Extent(ns) ==
    [minX |-> MinOf({ns[i].position.x : i \in 1..Len(ns)}),
     minY |-> MinOf({ns[i].position.y : i \in 1..Len(ns)}),
     maxX |-> MaxOf({ns[i].position.x + ns[i].size.width : i \in 1..Len(ns)}),
     maxY |-> MaxOf({ns[i].position.y + ns[i].size.height : i \in 1..Len(ns)})]

groupPadding == 20
groupHeaderHeight == 28

\* graph.groups || []
GroupsOf(g) == IF g.groups = None THEN <<>> ELSE g.groups[1]

\* as computeGroupBounds, a group that has bounds stored grown from them
computeGroupBoundsFromStored(g) ==
    [i \in 1..Len(GroupsOf(g)) |->
        IF GroupsOf(g)[i].bounds = None THEN GroupsOf(g)[i]
        ELSE [GroupsOf(g)[i] EXCEPT !.bounds =
                 Some([x |-> GroupsOf(g)[i].bounds[1].x - groupPadding,
                       y |-> GroupsOf(g)[i].bounds[1].y - groupPadding,
                       width |-> GroupsOf(g)[i].bounds[1].width + groupPadding * 2,
                       height |-> GroupsOf(g)[i].bounds[1].height + groupPadding * 2])]]

computeGroupBounds(g) ==
    LET one(group) ==
            LET groupNodes ==
                    SelectSeq(g.nodes,
                              LAMBDA n : \E k \in 1..Len(group.nodeIds) :
                                            group.nodeIds[k] = n.id)
                e == Extent(groupNodes)
            IN  IF groupNodes = <<>> THEN [group EXCEPT !.bounds = None]
                ELSE [group EXCEPT !.bounds =
                        Some([x |-> e.minX - groupPadding,
                              y |-> e.minY - groupPadding - groupHeaderHeight,
                              width |-> e.maxX - e.minX + groupPadding * 2,
                              height |-> e.maxY - e.minY + groupPadding * 2
                                         + groupHeaderHeight])]
    IN  [i \in 1..Len(GroupsOf(g)) |-> one(GroupsOf(g)[i])]

\* as computeGraphBounds, a bounds already stored in the graph kept
computeGraphBoundsKeepingStored(g, padding) ==
    IF g.bounds # None THEN g
    ELSE [g EXCEPT !.groups = Some(computeGroupBounds(g)),
                   !.bounds = Some([x |-> 0, y |-> 0, width |-> 0, height |-> 0])]

computeGraphBounds(g, padding) ==
    LET updatedGroups == computeGroupBounds(g)
        e  == Extent(g.nodes)
        bs == {updatedGroups[i].bounds[1] :
                  i \in {i \in 1..Len(updatedGroups) : updatedGroups[i].bounds # None}}
        minX == MinOf({e.minX} \cup {b.x : b \in bs})
        minY == MinOf({e.minY} \cup {b.y : b \in bs})
        maxX == MaxOf({e.maxX} \cup {b.x + b.width : b \in bs})
        maxY == MaxOf({e.maxY} \cup {b.y + b.height : b \in bs})
    IN  IF g.nodes = <<>>
        THEN [g EXCEPT !.groups = Some(updatedGroups),
                       !.bounds = Some([x |-> 0, y |-> 0, width |-> 0, height |-> 0])]
        ELSE [g EXCEPT !.groups = Some(updatedGroups),
                       !.bounds = Some([x |-> minX - padding, y |-> minY - padding,
                                        width |-> maxX - minX + padding * 2,
                                        height |-> maxY - minY + padding * 2])]

----------------------------------------------------------------------------
(* Layout engines and their registry                                       *)

DEFAULT_OPTIONS == [nodeSpacingX |-> 60, nodeSpacingY |-> 40, padding |-> 40]

NoOptions == [nodeSpacingX |-> None, nodeSpacingY |-> None, padding |-> None]

\* { ...DEFAULT_OPTIONS, ...options }
MergeOptions(o) ==
    [nodeSpacingX |-> IF o.nodeSpacingX # None THEN o.nodeSpacingX[1]
                                               ELSE DEFAULT_OPTIONS.nodeSpacingX,
     nodeSpacingY |-> IF o.nodeSpacingY # None THEN o.nodeSpacingY[1]
                                               ELSE DEFAULT_OPTIONS.nodeSpacingY,
     padding      |-> IF o.padding # None THEN o.padding[1] ELSE DEFAULT_OPTIONS.padding]

\* Math.ceil(Math.sqrt(n))
CeilSqrt(n) == CHOOSE c \in 0..n : c * c >= n /\ (c = 0 \/ (c - 1) * (c - 1) < n)

\* the nodes of gridLayout from node i on, the cursor being (x, y), the
\* current row rowHeight high and col nodes long
\* as gridPlace, a new row placed below the last node of the row above
RECURSIVE gridPlaceBelowLast(_, _, _, _, _, _, _, _)
gridPlaceBelowLast(nodes, i, columns, opts, x, y, rowHeight, col) ==
    IF i > Len(nodes) THEN <<>>
    ELSE LET node == nodes[i]
         IN  <<[node EXCEPT !.position = [x |-> x, y |-> y]]>>
             \o (IF col + 1 >= columns
                 THEN gridPlaceBelowLast(nodes, i + 1, columns, opts, opts.padding,
                                         y + node.size.height + opts.nodeSpacingY, 0, 0)
                 ELSE gridPlaceBelowLast(nodes, i + 1, columns, opts,
                                         x + node.size.width + opts.nodeSpacingX, y,
                                         rowHeight, col + 1))

RECURSIVE gridPlace(_, _, _, _, _, _, _, _)
gridPlace(nodes, i, columns, opts, x, y, rowHeight, col) ==
    IF i > Len(nodes) THEN <<>>
    ELSE LET node == nodes[i]
             rh   == Max(rowHeight, node.size.height)
         IN  <<[node EXCEPT !.position = [x |-> x, y |-> y]]>>
             \o (IF col + 1 >= columns
                 THEN gridPlace(nodes, i + 1, columns, opts, opts.padding,
                                y + rh + opts.nodeSpacingY, 0, 0)
                 ELSE gridPlace(nodes, i + 1, columns, opts,
                                x + node.size.width + opts.nodeSpacingX, y, rh, col + 1))

layoutGrid(g, options) ==
    LET opts == MergeOptions(options)
        columns == CeilSqrt(Len(g.nodes))
    IN  computeGraphBounds(
            [g EXCEPT !.nodes = gridPlace(g.nodes, 1, columns, opts,
                                          opts.padding, opts.padding, 0, 0)],
            opts.padding)

\* as layoutDagre, one node returned per node of the dagre graph
layoutDagreOnePerId(g, options) ==
    LET opts == MergeOptions(options)
        kept == SelectSeq([i \in 1..Len(g.nodes) |-> i],
                          LAMBDA i : \A k \in 1..(i - 1) : g.nodes[k].id # g.nodes[i].id)
    IN  computeGraphBounds(
            [g EXCEPT
               !.nodes = [j \in 1..Len(kept) |->
                   [g.nodes[kept[j]] EXCEPT !.position =
                       [x |-> dagre.centres[g.nodes[kept[j]].id].x
                                 - g.nodes[kept[j]].size.width \div 2,
                        y |-> dagre.centres[g.nodes[kept[j]].id].y
                                 - g.nodes[kept[j]].size.height \div 2]]],
               !.edges = [i \in 1..Len(g.edges) |->
                   [g.edges[i] EXCEPT !.points = Some(dagre.points)]]],
            opts.padding)

\* dagreLayout.layout: every node at the centre the dagre library computed
\* for its id, converted to top-left; every edge with the library's points
layoutDagre(g, options) ==
    LET opts == MergeOptions(options)
    IN  computeGraphBounds(
            [g EXCEPT
               !.nodes = [i \in 1..Len(g.nodes) |->
                   [g.nodes[i] EXCEPT !.position =
                       [x |-> dagre.centres[g.nodes[i].id].x
                                 - g.nodes[i].size.width \div 2,
                        y |-> dagre.centres[g.nodes[i].id].y
                                 - g.nodes[i].size.height \div 2]]],
               !.edges = [i \in 1..Len(g.edges) |->
                   [g.edges[i] EXCEPT !.points = Some(dagre.points)]]],
            opts.padding)

\* an engine registered by the application: it returns the graph as given
layoutCustom(g, options) == g

dagreLayout == [name |-> "dagre", impl |-> "dagre"]
gridLayout  == [name |-> "grid", impl |-> "grid"]

\* engine.layout(graph, options)
layoutBy(engine, g, options) ==
    CASE engine.impl = "dagre" -> layoutDagre(g, options)
      [] engine.impl = "grid"  -> layoutGrid(g, options)
      [] OTHER                 -> layoutCustom(g, options)

EngineNames == {"dagre", "grid", "x"}

\* the module-level Map layoutEngines as created
InitialEngines ==
    [n \in EngineNames |->
        CASE n = "dagre" -> Some(dagreLayout)
          [] n = "grid"  -> Some(gridLayout)
          [] OTHER       -> None]

\* as getLayoutEngine, every second lookup answered with the grid engine
getLayoutEngineAlternating(engines, name) ==
    IF Len(lcalls) % 2 = 1 THEN gridLayout
    ELSE IF engines[name] # None THEN engines[name][1] ELSE dagreLayout

getLayoutEngine(engines, name) ==
    IF engines[name] # None THEN engines[name][1] ELSE dagreLayout

\* as layoutGraph, from the third call on laid out by the grid engine
layoutGraphGridAfterTwo(engines, g, name, options) ==
    IF Len(lcalls) >= 2 THEN layoutBy(gridLayout, g, options)
    ELSE layoutBy(getLayoutEngine(engines, IF name = None THEN "dagre" ELSE name[1]),
                  g, options)

\* layoutGraph(graph, engineName = 'dagre', options); name is <<>> when the
\* argument is left out
layoutGraph(engines, g, name, options) ==
    layoutBy(getLayoutEngine(engines, IF name = None THEN "dagre" ELSE name[1]),
             g, options)

EmptyGraph == [nodes |-> <<>>, edges |-> <<>>, groups |-> None, notes |-> None,
               bounds |-> None]

NoDagre == [centres |-> <<>>, points |-> <<>>]

LayoutIdle ==
    /\ lgraph = EmptyGraph
    /\ lopts = NoOptions
    /\ dagre = NoDagre
    /\ layoutEngines = InitialEngines
    /\ laid = None
    /\ lcalls = <<>>
    /\ bounded = None

DiffIdle ==
    /\ oldSchema = EmptySchema
    /\ diff = None
    /\ diffBack = None

----------------------------------------------------------------------------
(* Undo history (useHistory)                                               *)

MAX_HISTORY_SIZE == 100

\* states kept in the history: objects as their own properties in
\* insertion order, each a <<key, value>>
StateX1  == <<<<"x", "1">>>>
StateX2  == <<<<"x", "2">>>>
StateX1G == <<<<"x", "1">>, <<"g", "undefined">>>>
StateXY  == <<<<"x", "1">>, <<"y", "2">>>>
StateYX  == <<<<"y", "2">>, <<"x", "1">>>>

\* JSON.stringify of an object: its properties in insertion order, those of
\* value undefined left out
JSONstringify(v) == SelectSeq(v, LAMBDA kv : kv[2] # "undefined")

\* array.slice(-n), n > 0
SliceLast(seq, n) ==
    IF Len(seq) <= n THEN seq ELSE SubSeq(seq, Len(seq) - n + 1, Len(seq))

set(h, newState) ==
    IF JSONstringify(h.present) = JSONstringify(newState) THEN h
    ELSE [past    |-> SliceLast(Append(h.past, h.present), MAX_HISTORY_SIZE),
          present |-> newState,
          future  |-> <<>>]

undo(h) ==
    IF Len(h.past) = 0 THEN h
    ELSE [past    |-> SubSeq(h.past, 1, Len(h.past) - 1),
          present |-> h.past[Len(h.past)],
          future  |-> <<h.present>> \o h.future]

redo(h) ==
    IF Len(h.future) = 0 THEN h
    ELSE [past    |-> Append(h.past, h.present),
          present |-> Head(h.future),
          future  |-> Tail(h.future)]

clear(h) == [past |-> <<>>, present |-> h.present, future |-> <<>>]

Abs(n) == IF n < 0 THEN -n ELSE n

\* as go, a step forward taking the first of the entries moved
goFirstForward(h, index) ==
    IF index <= 0 \/ Len(h.future) = 0 THEN h
    ELSE LET steps == Min(index, Len(h.future))
             moved == SubSeq(h.future, 1, steps)
         IN  [past    |-> h.past \o <<h.present>> \o Tail(moved),
              present |-> moved[1],
              future  |-> SubSeq(h.future, steps + 1, Len(h.future))]

go(h, index) ==
    IF index = 0 THEN h
    ELSE IF index < 0
    THEN LET steps == Min(Abs(index), Len(h.past))
             movedToPast == SliceLast(h.past, steps)
         IN  IF steps = 0 THEN h
             ELSE [past    |-> SubSeq(h.past, 1, Len(h.past) - steps),
                   present |-> movedToPast[1],
                   future  |-> Tail(movedToPast) \o <<h.present>> \o h.future]
    ELSE LET steps == Min(index, Len(h.future))
             movedToFuture == SubSeq(h.future, 1, steps)
         IN  IF steps = 0 THEN h
             ELSE [past    |-> h.past \o <<h.present>>
                               \o SubSeq(movedToFuture, 1, steps - 1),
                   present |-> movedToFuture[steps],
                   future  |-> SubSeq(h.future, steps + 1, Len(h.future))]

\* useState({ past: [], present: initialState, future: [] })
NewHistory(initialState) == [past |-> <<>>, present |-> initialState, future |-> <<>>]

\* a call of the hook as logged: the state before it and its argument
HistoryCall(op, index, newState) ==
    [op |-> op, index |-> index, newState |-> newState, before |-> history]

\* the log keeps the last two calls
Logged(call) == SliceLast(Append(hlog, call), 2)

----------------------------------------------------------------------------
(* Debounced parsing (useDebouncedParse)                                   *)

\* the parser handed to the hook: it returns a schema for some texts and
\* throws an Error for others
DebounceParser(text) ==
    IF text \in {"!", "?"} THEN [ok |-> FALSE, schema |-> None, message |-> Some("unexpected")]
    ELSE [ok |-> TRUE, schema |-> Some([of |-> text]), message |-> None]

ParseResultOf(sch, err, isParsing) ==
    [schema |-> sch, error |-> err, isParsing |-> isParsing]

\* the hook before its effect has run: useState and the two useRef
NewDebounce(text) ==
    [input |-> text, lastInputRef |-> "", timer |-> None, cleanup |-> FALSE,
     result |-> ParseResultOf(None, None, FALSE)]

\* the effect that was registered is cleaned up: clearTimeout(timeoutRef.current)
runCleanup(d) == IF d.cleanup THEN [d EXCEPT !.timer = None] ELSE d

\* a render with input text: the cleanup of the last effect, then the
\* effect body
runEffect(d, text) ==
    LET c == runCleanup(d)
    IN  IF text = c.lastInputRef THEN [c EXCEPT !.input = text, !.cleanup = FALSE]
        ELSE [c EXCEPT !.input = text, !.timer = Some(text),
                       !.result.isParsing = TRUE, !.cleanup = TRUE]

\* the callback handed to setTimeout, for the input it was created with
timerCallback(d, text) ==
    LET r == DebounceParser(text)
    IN  IF r.ok
        THEN [d EXCEPT !.lastInputRef = text, !.timer = None,
                       !.result = ParseResultOf(r.schema, None, FALSE)]
        ELSE [d EXCEPT !.timer = None,
                       !.result = ParseResultOf(None, r.message, FALSE)]

\* no hook is mounted
HookIdle ==
    /\ history = NewHistory(StateX1)
    /\ hlog = <<>>
    /\ hsteps = 0
    /\ debounce = NewDebounce("")

----------------------------------------------------------------------------
(* Schema diff                                                             *)

\* the keys of new Map(seq.map((e) => [key, e])), in insertion order; keys
\* holds the key of each element of seq
RECURSIVE KeysInOrder(_, _)
KeysInOrder(keys, seen) ==
    IF keys = <<>> THEN seen
    ELSE IF \E k \in 1..Len(seen) : seen[k] = Head(keys)
         THEN KeysInOrder(Tail(keys), seen)
         ELSE KeysInOrder(Tail(keys), Append(seen, Head(keys)))

\* map.get(key): <<>> or <<the last element of that key>>
MapGet(seq, keys, key) ==
    LET at == {i \in 1..Len(seq) : keys[i] = key}
    IN  IF at = {} THEN None ELSE Some(seq[MaxOf(at)])

\* the name of each element
NamesOf(seq) == [i \in 1..Len(seq) |-> seq[i].name]

\* new Set([...a, ...b]): a, then the elements of b not yet present
RECURSIVE UnionInOrder(_, _)
UnionInOrder(a, b) ==
    IF b = <<>> THEN a
    ELSE IF \E k \in 1..Len(a) : a[k] = Head(b) THEN UnionInOrder(a, Tail(b))
         ELSE UnionInOrder(Append(a, Head(b)), Tail(b))

\* rawType ?? type
DisplayType(c) == IF c.rawType # None THEN c.rawType[1] ELSE TypeText(c.type)

\* a setting read as a condition: undefined and false are falsy
Truthy(flag) == flag = Some(TRUE)

ColumnDiffOf(name, action, oldType, newType, changes) ==
    [name |-> name, action |-> action, oldType |-> oldType, newType |-> newType,
     changes |-> changes]

\* as compareColumns, a flag that is unset read as false
compareColumnsUnsetAsFalse(colName, oldCol, newCol) ==
    LET oldType == DisplayType(oldCol)
        newType == DisplayType(newCol)
        changes ==
            (IF oldType # newType
             THEN <<<<"Type changed from ", oldType, " to ", newType>>>> ELSE <<>>)
            \o (IF Truthy(oldCol.settings.primaryKey) # Truthy(newCol.settings.primaryKey)
                THEN <<IF Truthy(newCol.settings.primaryKey)
                       THEN <<"Set as Primary Key">> ELSE <<"Removed Primary Key">>>>
                ELSE <<>>)
            \o (IF Truthy(oldCol.settings.notNull) # Truthy(newCol.settings.notNull)
                THEN <<IF Truthy(newCol.settings.notNull)
                       THEN <<"Set as Not Null">> ELSE <<"Set as Nullable">>>>
                ELSE <<>>)
    IN  IF changes # <<>>
        THEN ColumnDiffOf(colName, "modified", Some(oldType), Some(newType), changes)
        ELSE ColumnDiffOf(colName, "unchanged", None, None, <<>>)

\* a column present in both tables; a change is the pieces of its message
compareColumns(colName, oldCol, newCol) ==
    LET oldType == DisplayType(oldCol)
        newType == DisplayType(newCol)
        changes ==
            (IF oldType # newType
             THEN <<<<"Type changed from ", oldType, " to ", newType>>>> ELSE <<>>)
            \o (IF oldCol.settings.primaryKey # newCol.settings.primaryKey
                THEN <<IF Truthy(newCol.settings.primaryKey)
                       THEN <<"Set as Primary Key">> ELSE <<"Removed Primary Key">>>>
                ELSE <<>>)
            \o (IF oldCol.settings.notNull # newCol.settings.notNull
                THEN <<IF Truthy(newCol.settings.notNull)
                       THEN <<"Set as Not Null">> ELSE <<"Set as Nullable">>>>
                ELSE <<>>)
    IN  IF changes # <<>>
        THEN ColumnDiffOf(colName, "modified", Some(oldType), Some(newType), changes)
        ELSE ColumnDiffOf(colName, "unchanged", None, None, <<>>)

\* one column name of a table present in both schemas
diffColumn(colName, oldTable, newTable) ==
    LET oldCol == MapGet(oldTable.columns, NamesOf(oldTable.columns), colName)
        newCol == MapGet(newTable.columns, NamesOf(newTable.columns), colName)
    IN  IF oldCol = None
        THEN ColumnDiffOf(colName, "added", None, Some(DisplayType(newCol[1])), <<>>)
        ELSE IF newCol = None
        THEN ColumnDiffOf(colName, "removed", Some(DisplayType(oldCol[1])), None, <<>>)
        ELSE compareColumns(colName, oldCol[1], newCol[1])

\* one table name
diffTable(tableName, old, new) ==
    LET oldTable == MapGet(old.tables, NamesOf(old.tables), tableName)
        newTable == MapGet(new.tables, NamesOf(new.tables), tableName)
    IN  IF oldTable = None
        THEN [name |-> tableName, action |-> "added",
              columnDiffs |-> [j \in 1..Len(newTable[1].columns) |->
                  ColumnDiffOf(newTable[1].columns[j].name, "added", None,
                               Some(DisplayType(newTable[1].columns[j])), <<>>)]]
        ELSE IF newTable = None
        THEN [name |-> tableName, action |-> "removed",
              columnDiffs |-> [j \in 1..Len(oldTable[1].columns) |->
                  ColumnDiffOf(oldTable[1].columns[j].name, "removed",
                               Some(DisplayType(oldTable[1].columns[j])), None, <<>>)]]
        ELSE LET allColNames ==
                     UnionInOrder(KeysInOrder(NamesOf(oldTable[1].columns), <<>>),
                                  KeysInOrder(NamesOf(newTable[1].columns), <<>>))
                 columnDiffs == [j \in 1..Len(allColNames) |->
                                    diffColumn(allColNames[j], oldTable[1], newTable[1])]
             IN  [name |-> tableName,
                  action |-> IF \E j \in 1..Len(columnDiffs) :
                                   columnDiffs[j].action # "unchanged"
                             THEN "modified" ELSE "unchanged",
                  columnDiffs |-> columnDiffs]

relId(r) ==
    ColKey(r.from.table, r.from.column) \o <<"-", ">">> \o ColKey(r.to.table, r.to.column)

RelIdsOf(seq) == [i \in 1..Len(seq) |-> relId(seq[i])]

\* as diffRelation, a relation missing from the new schema not looked for
diffRelationNoRemoved(id, old, new) ==
    [id |-> id, description |-> id,
     action |-> IF MapGet(old.relations, RelIdsOf(old.relations), id) = None THEN "added"
                ELSE "unchanged"]

diffRelation(id, old, new) ==
    [id |-> id, description |-> id,
     action |-> IF MapGet(old.relations, RelIdsOf(old.relations), id) = None THEN "added"
                ELSE IF MapGet(new.relations, RelIdsOf(new.relations), id) = None THEN "removed"
                ELSE "unchanged"]

diffSchemas(old, new) ==
    LET allTableNames == UnionInOrder(KeysInOrder(NamesOf(old.tables), <<>>),
                                      KeysInOrder(NamesOf(new.tables), <<>>))
        allRelIds == UnionInOrder(KeysInOrder(RelIdsOf(old.relations), <<>>),
                                  KeysInOrder(RelIdsOf(new.relations), <<>>))
        tableDiffs == [i \in 1..Len(allTableNames) |-> diffTable(allTableNames[i], old, new)]
        relationDiffs == [i \in 1..Len(allRelIds) |-> diffRelation(allRelIds[i], old, new)]
    IN  [tables |-> tableDiffs, relations |-> relationDiffs,
         hasChanges |-> \/ \E i \in 1..Len(tableDiffs) : tableDiffs[i].action # "unchanged"
                        \/ \E i \in 1..Len(relationDiffs) :
                              relationDiffs[i].action # "unchanged"]

\* diffSchemas(oldSchema, schema) called
Diff ==
    /\ outcome = "returned"
    /\ diff = None
    /\ diff' = Some(diffSchemas(oldSchema, schema))
    /\ UNCHANGED <<hookVars, diffBack>>
    /\ UNCHANGED <<layoutVars, oldSchema, input, lexer, tokens, pos, schema, pc, cur,
                   outcome, error, stmts, vresult, graph>>

\* diffSchemas(schema, oldSchema) called: the arguments the other way round
DiffBack ==
    /\ outcome = "returned"
    /\ diffBack = None
    /\ diffBack' = Some(diffSchemas(schema, oldSchema))
    /\ UNCHANGED <<hookVars, diff>>
    /\ UNCHANGED <<layoutVars, oldSchema, input, lexer, tokens, pos, schema, pc, cur,
                   outcome, error, stmts, vresult, graph>>

----------------------------------------------------------------------------
(* Inputs of parseDSL: a context (the start of a program) followed by up   *)
(* to MaxSuffix words of the context's vocabulary, separated by blanks.    *)

MaxSuffix == 3

W_Table == <<"T","a","b","l","e">>
W_Enum == <<"E","n","u","m">>
W_Ref == <<"R","e","f">>
W_TableGroup == <<"T","a","b","l","e","G","r","o","u","p">>
W_indexes == <<"i","n","d","e","x","e","s">>
W_Note == <<"N","o","t","e">>
W_int == <<"i","n","t">>
W_pk == <<"p","k">>
W_not == <<"n","o","t">>
W_default == <<"d","e","f","a","u","l","t">>
W_unique == <<"u","n","i","q","u","e">>
W_name == <<"n","a","m","e">>
W_str == <<"'","s","'">>
NL == <<"\n">>
SP == <<" ">>

RECURSIVE JoinWords(_)
JoinWords(ws) ==
    IF ws = <<>> THEN <<>>
    ELSE IF Len(ws) = 1 THEN ws[1]
    ELSE ws[1] \o SP \o JoinWords(Tail(ws))

WordSeqs(V, n) == UNION {[1..k -> V] : k \in 0..n}

Contexts ==
    { \* top level
      [prefix |-> <<>>,
       vocab  |-> {W_Table, W_Ref, <<"t">>, <<"{">>, <<"}">>, NL, <<"#">>}],
      \* after a first table and a relation
      [prefix |-> JoinWords(<<W_Table, <<"t">>, <<"{">>, <<"}">>, NL,
                             W_Ref, <<":">>, <<"t">>, <<".">>, <<"x">>, <<"<">>,
                             <<"u">>, <<".">>, <<"y">>, NL, W_Table>>),
       vocab  |-> {W_Enum, W_TableGroup, <<"t">>, <<"{">>, <<"}">>, NL}],
      \* table body
      [prefix |-> JoinWords(<<W_Table, <<"t">>, <<"a","s">>, <<"u">>, <<"{">>, NL>>),
       vocab  |-> {<<"a">>, W_int, <<"}">>, NL, W_indexes, <<"#">>}],
      \* table body: notes
      [prefix |-> JoinWords(<<W_Table, <<"t">>, <<"{">>>>),
       vocab  |-> {W_Note, <<":">>, W_str, <<"a">>, <<"}">>, NL}],
      \* column: after the name and the type
      [prefix |-> JoinWords(<<W_Table, <<"t">>, <<"{">>, NL, <<"a">>, W_int>>),
       vocab  |-> {<<"(">>, <<")">>, <<"1","2">>, <<",">>, <<"}">>, NL}],
      \* column settings bracket: flags
      [prefix |-> JoinWords(<<W_Table, <<"t">>, <<"{">>, NL, <<"a">>, W_int, <<"[">>>>),
       vocab  |-> {W_pk, W_not, W_null, <<",">>, <<"]">>, <<"}">>, NL}],
      \* column settings bracket: valued settings
      [prefix |-> JoinWords(<<W_Table, <<"t">>, <<"{">>, NL, <<"a">>, W_int, <<"[">>>>),
       vocab  |-> {W_default, W_Note, <<":">>, W_str, <<"]">>, <<"}">>}],
      \* indexes block
      [prefix |-> JoinWords(<<W_Table, <<"t">>, <<"{">>, NL, W_indexes, <<"{">>>>),
       vocab  |-> {<<"a">>, <<"(">>, <<")">>, <<",">>, <<"[">>, <<"}">>, NL}],
      \* index settings bracket
      [prefix |-> JoinWords(<<W_Table, <<"t">>, <<"{">>, NL, W_indexes, <<"{">>,
                             <<"(">>, <<"a">>, <<")">>, <<"[">>>>),
       vocab  |-> {W_unique, W_name, <<":">>, W_str, <<",">>, <<"]">>, <<"}">>}],
      \* enum body
      [prefix |-> JoinWords(<<W_Enum, <<"e">>, <<"{">>>>),
       vocab  |-> {<<"v">>, <<"[">>, <<"]">>, W_Note, <<":">>, W_str, <<"}">>}],
      \* table-group body
      [prefix |-> JoinWords(<<W_TableGroup, <<"g">>, <<"{">>>>),
       vocab  |-> {<<"t">>, <<"u">>, <<"}">>, NL, <<",">>, W_Table}],
      \* relation: after the keyword
      [prefix |-> W_Ref,
       vocab  |-> {<<"r">>, <<":">>, <<"t">>, <<".">>, <<"-">>, NL}],
      \* relation: after the first endpoint
      [prefix |-> JoinWords(<<W_Ref, <<"r">>, <<":">>, <<"t">>, <<".">>, <<"x">>>>),
       vocab  |-> {<<"-">>, <<"<">>, <<">">>, <<"<",">">>, <<"u",".","y">>, <<",">>, NL}] }

ContextInputs(c) ==
    {IF c.prefix = <<>> THEN JoinWords(ws)
     ELSE IF ws = <<>> THEN c.prefix
     ELSE c.prefix \o SP \o JoinWords(ws) : ws \in WordSeqs(c.vocab, MaxSuffix)}

toUpperCase(s) ==
    [i \in 1..Len(s) |->
        IF s[i] \in LowerLetters
        THEN CHOOSE c \in UpperLetters : UpperToLower[c] = s[i]
        ELSE s[i]]

Capitalize(s) == toUpperCase(SubSeq(s, 1, 1)) \o SubSeq(s, 2, Len(s))

\* the spellings of a type name that are tried: lower, upper, capitalized
Casings(k) == {k, toUpperCase(k), Capitalize(k)}

UnknownTypeWords == {<<"f","o","o">>, <<"M","o","n","e","y">>, <<"i","n","t","4">>}

TypeWords == UNION {Casings(mapping[i][1]) : i \in 1..Len(mapping)} \cup UnknownTypeWords

\* a table with one column `a <type>`
TypeProgram(w) == JoinWords(<<W_Table, <<"t">>, <<"{">>, NL, <<"a">>, w, NL, <<"}">>>>)

Inputs == UNION {ContextInputs(c) : c \in Contexts} \cup {TypeProgram(w) : w \in TypeWords}

Init ==
    /\ input \in Inputs
    /\ lexer = NewLexer(<<>>)
    /\ tokens = <<>>
    /\ pos = 0
    /\ schema = EmptySchema
    /\ pc = "start"
    /\ cur = NoCur
    /\ outcome = "idle"
    /\ error = None
    /\ stmts = <<>>
    /\ vresult = None
    /\ graph = None
    /\ LayoutIdle
    /\ DiffIdle
    /\ HookIdle

Next ==
    \/ ParseStart
    \/ ParseReturn
    \/ ParseUnexpected
    \/ ParseTableHead
    \/ ParseEnumHead
    \/ ParseTableGroupHead
    \/ ParseRef
    \/ TableIndexes
    \/ TableNote
    \/ TableColumn
    \/ TableSkip
    \/ TableEnd
    \/ ColumnSetting
    \/ ColumnEnd
    \/ IndexEntry
    \/ IndexesEnd
    \/ IndexColumn
    \/ IndexColumnsEnd
    \/ IndexSetting
    \/ IndexSettingsEnd
    \/ EnumValue
    \/ EnumEnd
    \/ TableGroupEntry
    \/ TableGroupEnd
    \/ Validate
    \/ Build

Spec == Init /\ [][Next]_vars

----------------------------------------------------------------------------
(* The lexer alone, on every text over a small alphabet                    *)

MaxLexLen == 4

LexAlphabet == {"a", "1", ".", " ", "\n", "/", "*", "'", "\\", "#"}

LexInputs == UNION {[1..k -> LexAlphabet] : k \in 0..MaxLexLen}

\* one iteration of the loop of tokenize()
LexStep ==
    /\ ~lexer.done
    /\ lexer.pos < Len(lexer.input)
    /\ lexer' = tokenizeIteration(lexer)
    /\ UNCHANGED hookVars
    /\ UNCHANGED <<layoutVars, diffVars, input, tokens, pos, schema, pc, cur, outcome, error, stmts,
                   vresult, graph>>

\* the loop has ended: EOF is pushed and the tokens are returned
LexEOF ==
    /\ ~lexer.done
    /\ lexer.pos >= Len(lexer.input)
    /\ lexer' = tokenizeEOF(lexer)
    /\ UNCHANGED hookVars
    /\ UNCHANGED <<layoutVars, diffVars, input, tokens, pos, schema, pc, cur, outcome, error, stmts,
                   vresult, graph>>

InitLex ==
    /\ input \in LexInputs
    /\ lexer = NewLexer(input)
    /\ tokens = <<>>
    /\ pos = 0
    /\ schema = EmptySchema
    /\ pc = "start"
    /\ cur = NoCur
    /\ outcome = "idle"
    /\ error = None
    /\ stmts = <<>>
    /\ vresult = None
    /\ graph = None
    /\ LayoutIdle
    /\ DiffIdle
    /\ HookIdle

NextLex == LexStep \/ LexEOF

SpecLex == InitLex /\ [][NextLex]_vars

----------------------------------------------------------------------------
(* The validator and the builder on schemas of any origin (the DSL parser, *)
(* an importer, a stored project): schemas drawn from bounded sets         *)

MaxTables == 2

SeqsUpTo(S, n) == UNION {[1..k -> S] : k \in 0..n}

IRTableNames == {<<"t">>, <<"u">>}

IRColumnX ==
    [name |-> <<"x">>, type |-> "int", rawType |-> Some(<<"i","n","t">>),
     settings |-> [NoSettings EXCEPT !.primaryKey = Some(TRUE)]]
IRColumnY ==
    [name |-> <<"y">>, type |-> "enum", rawType |-> Some(<<"e">>), settings |-> NoSettings]

IRColumnLists ==
    {<<>>, <<IRColumnX>>, <<IRColumnY>>, <<IRColumnX, IRColumnY>>, <<IRColumnX, IRColumnX>>}

IRTables ==
    {[NoTable EXCEPT !.name = n, !.columns = cs] : n \in IRTableNames, cs \in IRColumnLists}

IRFrom == {[table |-> <<"t">>, column |-> <<"x">>],
           [table |-> <<"t">>, column |-> <<"z">>],
           [table |-> <<"w">>, column |-> <<"x">>]}
IRTo   == {[table |-> <<"u">>, column |-> <<"y">>],
           [table |-> <<"t">>, column |-> <<"x">>],
           [table |-> <<"v">>, column |-> <<"x">>]}

IRRelations ==
    {[name |-> None, from |-> f, to |-> t, type |-> "many-to-one"] :
        f \in IRFrom, t \in IRTo}

\* no relation, one relation, a relation followed by one between two
\* tables that do not exist, or the same relation twice
IRRelationLists ==
    {<<>>} \cup {<<r>> : r \in IRRelations}
    \cup {<<r, [name |-> None, from |-> [table |-> <<"w">>, column |-> <<"x">>],
                 to |-> [table |-> <<"v">>, column |-> <<"x">>],
                 type |-> "many-to-one"]>> : r \in IRRelations}
    \cup {<<r, r>> : r \in {q \in IRRelations :
              q.from.column = <<"x">> /\ q.from.table = <<"t">> /\ q.to.table = <<"u">>}}

IREnums  == {<<>>, <<[name |-> <<"e">>, values |-> <<[name |-> <<"v">>, note |-> None]>>]>>}
\* no group, a group of t and a missing table, or that group and a later
\* group that lists t as well
IRGroups ==
    {<<>>,
     <<[name |-> <<"g">>, tables |-> <<<<"t">>, <<"w">>>>]>>,
     <<[name |-> <<"g">>, tables |-> <<<<"t">>, <<"w">>>>],
       [name |-> <<"h">>, tables |-> <<<<"t">>>>]>>}

IRSchemas ==
    {[tables |-> ts, relations |-> rs, enums |-> es, tableGroups |-> gs] :
        ts \in SeqsUpTo(IRTables, MaxTables),
        rs \in IRRelationLists,
        es \in IREnums, gs \in IRGroups}

InitIR ==
    /\ schema \in IRSchemas
    /\ input = <<>>
    /\ lexer = NewLexer(<<>>)
    /\ tokens = <<>>
    /\ pos = 0
    /\ pc = "done"
    /\ cur = NoCur
    /\ outcome = "returned"
    /\ error = None
    /\ stmts = <<>>
    /\ vresult = None
    /\ graph = None
    /\ LayoutIdle
    /\ DiffIdle
    /\ HookIdle

NextIR == Validate \/ Build

SpecIR == InitIR /\ [][NextIR]_vars

----------------------------------------------------------------------------
(* The layout engines on graphs drawn from bounded sets: up to MaxNodes    *)
(* nodes of two ids and several sizes, with and without an edge, groups    *)
(* and stored bounds.  Sizes are even, as those computeNodeSize gives, so  *)
(* that halving them is exact.                                             *)

MaxNodes == 3

LayoutNode(i, w, h) ==
    [id |-> i, position |-> [x |-> 0, y |-> 0], size |-> [width |-> w, height |-> h],
     columns |-> <<[id |-> ColKey(i, <<"x">>), name |-> <<"x">>]>>]

LayoutNodes ==
    {LayoutNode(<<"t">>, 2, 2), LayoutNode(<<"t">>, 4, 4),
     LayoutNode(<<"u">>, 2, 4), LayoutNode(<<"u">>, 4, 2)}

LayoutEdge ==
    [id |-> <<"e">>, from |-> [nodeId |-> <<"t">>, columnId |-> <<"t", ".", "x">>],
     to |-> [nodeId |-> <<"u">>, columnId |-> <<"u", ".", "y">>], points |-> None]

StaleBounds == [x |-> 1, y |-> 1, width |-> 1, height |-> 1]

\* the groups and the bounds a graph is handed over with: none; an empty
\* list and bounds stored earlier; a group of a node and a missing node;
\* a group of no node of the graph, with bounds stored earlier
LayoutGroupings ==
    {[groups |-> None, bounds |-> None],
     [groups |-> Some(<<>>), bounds |-> Some(StaleBounds)],
     [groups |-> Some(<<[id |-> <<"g">>, nodeIds |-> <<<<"t">>, <<"w">>>>,
                         bounds |-> None]>>), bounds |-> None],
     [groups |-> Some(<<[id |-> <<"g">>, nodeIds |-> <<<<"w">>>>,
                         bounds |-> Some(StaleBounds)]>>), bounds |-> Some(StaleBounds)]}

NodeIds(g) == {g.nodes[i].id : i \in 1..Len(g.nodes)}

\* an edge from t to u is given only with both nodes in the graph
LayoutGraphs ==
    LET all == {[nodes |-> ns, edges |-> es, groups |-> gr.groups,
                 notes |-> gr.groups, bounds |-> gr.bounds] :
                    ns \in SeqsUpTo(LayoutNodes, MaxNodes),
                    es \in {<<>>, <<LayoutEdge>>},
                    gr \in LayoutGroupings}
    IN  {g \in all : g.edges # <<>> => {<<"t">>, <<"u">>} \subseteq NodeIds(g)}

LayoutOptionSets ==
    {NoOptions,
     [nodeSpacingX |-> Some(0), nodeSpacingY |-> Some(0), padding |-> Some(0)],
     [nodeSpacingX |-> Some(0), nodeSpacingY |-> None, padding |-> Some(3)]}

DagrePoints == {[x |-> 4, y |-> 4], [x |-> 10, y |-> 10]}

\* what the dagre library may compute for g: one centre per node id, the
\* rectangles of different ids apart, and a list of points for the edges
DagreOutcomes(g) ==
    {[centres |-> c, points |-> ps] :
        c \in {f \in [NodeIds(g) -> DagrePoints] :
                  \A a, b \in NodeIds(g) : a # b => f[a] # f[b]},
        ps \in IF g.edges = <<>> THEN {<<>>}
               ELSE {<<>>, <<[x |-> 4, y |-> 4], [x |-> 10, y |-> 10]>>}}

\* engine.layout(graph, options) called on one of the two engines
EngineLayout ==
    /\ laid = None
    /\ \E e \in {dagreLayout, gridLayout} :
          laid' = Some([engine |-> e.name, result |-> layoutBy(e, lgraph, lopts)])
    /\ UNCHANGED <<lgraph, lopts, dagre, layoutEngines, lcalls, bounded>>
    /\ UNCHANGED hookVars
    /\ UNCHANGED <<diffVars, input, lexer, tokens, pos, schema, pc, cur, outcome,
                   error, stmts, vresult, graph>>

\* layoutGraph(graph, name, options), the name given or left out
LayoutGraphCall ==
    /\ laid = None
    /\ \E name \in {None, Some("dagre"), Some("grid"), Some("x")} :
          laid' = Some([engine |-> getLayoutEngine(layoutEngines,
                                      IF name = None THEN "dagre" ELSE name[1]).name,
                        result |-> layoutGraph(layoutEngines, lgraph, name, lopts)])
    /\ UNCHANGED <<lgraph, lopts, dagre, layoutEngines, lcalls, bounded>>
    /\ UNCHANGED hookVars
    /\ UNCHANGED <<diffVars, input, lexer, tokens, pos, schema, pc, cur, outcome,
                   error, stmts, vresult, graph>>

\* computeGraphBounds(g, padding) on the graph as given or as laid out
ComputeGraphBounds ==
    /\ bounded = None
    /\ LET g == IF laid = None THEN lgraph ELSE laid[1].result
           p == MergeOptions(lopts).padding
       IN  bounded' = Some([of |-> g, padding |-> p,
                            once |-> computeGraphBounds(g, p), again |-> None])
    /\ UNCHANGED <<lgraph, lopts, dagre, layoutEngines, laid, lcalls>>
    /\ UNCHANGED hookVars
    /\ UNCHANGED <<diffVars, input, lexer, tokens, pos, schema, pc, cur, outcome,
                   error, stmts, vresult, graph>>

\* computeGraphBounds called on its own result, with the same padding
ComputeGraphBoundsAgain ==
    /\ bounded # None
    /\ bounded[1].again = None
    /\ bounded' = Some([bounded[1] EXCEPT
                          !.again = Some(computeGraphBounds(bounded[1].once,
                                                            bounded[1].padding))])
    /\ UNCHANGED <<lgraph, lopts, dagre, layoutEngines, laid, lcalls>>
    /\ UNCHANGED hookVars
    /\ UNCHANGED <<diffVars, input, lexer, tokens, pos, schema, pc, cur, outcome,
                   error, stmts, vresult, graph>>

InitLayout ==
    /\ lgraph \in LayoutGraphs
    /\ lopts \in LayoutOptionSets
    /\ dagre \in DagreOutcomes(lgraph)
    /\ layoutEngines = InitialEngines
    /\ laid = None
    /\ lcalls = <<>>
    /\ bounded = None
    /\ DiffIdle
    /\ HookIdle
    /\ input = <<>>
    /\ lexer = NewLexer(<<>>)
    /\ tokens = <<>>
    /\ pos = 0
    /\ schema = EmptySchema
    /\ pc = "done"
    /\ cur = NoCur
    /\ outcome = "returned"
    /\ error = None
    /\ stmts = <<>>
    /\ vresult = None
    /\ graph = None

NextLayout ==
    \/ EngineLayout
    \/ LayoutGraphCall
    \/ ComputeGraphBounds
    \/ ComputeGraphBoundsAgain

SpecLayout == InitLayout /\ [][NextLayout]_vars

----------------------------------------------------------------------------
(* diffSchemas on pairs of schemas of one table t with a column x that     *)
(* differs in its types, flags and other settings, and possibly a second   *)
(* column                                                                  *)

DiffFlags == {None, Some(TRUE), Some(FALSE)}

\* settings other than primaryKey and notNull
DiffOtherSettings ==
    {NoSettings,
     [NoSettings EXCEPT !.unique = Some(TRUE), !.default = Some(<<"1">>)],
     [NoSettings EXCEPT !.length = Some(5), !.precision = Some(2),
                        !.note = Some(<<"n">>)]}

DiffColumns ==
    {[name |-> <<"x">>, type |-> ty, rawType |-> raw,
      settings |-> [other EXCEPT !.primaryKey = pk, !.notNull = nn]] :
        ty \in {"int", "text"}, raw \in {None, Some(<<"i", "n", "t">>)},
        pk \in DiffFlags, nn \in DiffFlags, other \in DiffOtherSettings}

DiffRelation ==
    [name |-> None, from |-> [table |-> <<"t">>, column |-> <<"x">>],
     to |-> [table |-> <<"u">>, column |-> <<"y">>], type |-> "many-to-one"]

DiffColumnLists ==
    {<<c>> : c \in DiffColumns}
    \cup {<<>>, <<IRColumnY>>, <<IRColumnX, IRColumnY>>}

DiffSchemasIn ==
    {[EmptySchema EXCEPT !.tables = <<[NoTable EXCEPT !.name = <<"t">>, !.columns = cs]>>] :
        cs \in DiffColumnLists}
    \cup {EmptySchema}
    \cup {[EmptySchema EXCEPT
              !.tables = <<[NoTable EXCEPT !.name = <<"t">>, !.columns = <<IRColumnX>>],
                           [NoTable EXCEPT !.name = <<"u">>, !.columns = <<IRColumnY>>]>>,
              !.relations = rs] :
            rs \in {<<>>, <<DiffRelation>>}}
    \cup {[EmptySchema EXCEPT
              !.tables = <<[NoTable EXCEPT !.name = <<"u">>, !.columns = <<IRColumnY>>]>>]}

InitDiff ==
    /\ oldSchema \in DiffSchemasIn
    /\ schema \in DiffSchemasIn
    /\ diff = None
    /\ diffBack = None
    /\ HookIdle
    /\ LayoutIdle
    /\ input = <<>>
    /\ lexer = NewLexer(<<>>)
    /\ tokens = <<>>
    /\ pos = 0
    /\ pc = "done"
    /\ cur = NoCur
    /\ outcome = "returned"
    /\ error = None
    /\ stmts = <<>>
    /\ vresult = None
    /\ graph = None

NextDiff == Diff \/ DiffBack \/ Validate

SpecDiff == InitDiff /\ [][NextDiff]_vars

----------------------------------------------------------------------------
(* The engine registry under registerLayoutEngine, getLayoutEngine and     *)
(* layoutGraph calls in any order, the other functions of the core called  *)
(* in between; lcalls is the log of the registry calls made                *)

MaxCalls == 3

\* engines a caller registers: a new name, and engines under the names of
\* the two built-in ones
RegEngines ==
    {[name |-> "x", impl |-> "grid"],
     [name |-> "grid", impl |-> "custom"],
     [name |-> "grid", impl |-> "dagre"],
     [name |-> "dagre", impl |-> "grid"]}

LogEntry(op, name, engine, result) ==
    [op |-> op, name |-> name, engine |-> engine, result |-> result]

\* registerLayoutEngine(engine)
RegisterLayoutEngine ==
    /\ Len(lcalls) < MaxCalls
    /\ \E e \in RegEngines :
          /\ layoutEngines' = [layoutEngines EXCEPT ![e.name] = Some(e)]
          /\ lcalls' = Append(lcalls, LogEntry("register", e.name, e, None))
    /\ UNCHANGED <<lgraph, lopts, dagre, laid, bounded>>
    /\ UNCHANGED hookVars
    /\ UNCHANGED <<diffVars, input, lexer, tokens, pos, schema, pc, cur, outcome,
                   error, stmts, vresult, graph>>

\* getLayoutEngine(name)
GetLayoutEngine ==
    /\ Len(lcalls) < MaxCalls
    /\ \E name \in {"grid", "x"} :
          lcalls' = Append(lcalls, LogEntry("get", name,
                                            getLayoutEngine(layoutEngines, name), None))
    /\ UNCHANGED <<lgraph, lopts, dagre, layoutEngines, laid, bounded>>
    /\ UNCHANGED hookVars
    /\ UNCHANGED <<diffVars, input, lexer, tokens, pos, schema, pc, cur, outcome,
                   error, stmts, vresult, graph>>

\* layoutGraph(lgraph, name, lopts), the name given or left out
LayoutGraph ==
    /\ Len(lcalls) < MaxCalls
    /\ \E name \in {None, Some("grid"), Some("x")} :
          LET n == IF name = None THEN "dagre" ELSE name[1]
          IN  lcalls' = Append(lcalls,
                  LogEntry("layout", n, getLayoutEngine(layoutEngines, n),
                           Some(layoutGraph(layoutEngines, lgraph, name, lopts))))
    /\ UNCHANGED <<lgraph, lopts, dagre, layoutEngines, laid, bounded>>
    /\ UNCHANGED hookVars
    /\ UNCHANGED <<diffVars, input, lexer, tokens, pos, schema, pc, cur, outcome,
                   error, stmts, vresult, graph>>

\* the graph laid out: t and u, an edge between them, no groups
RegistryGraphs ==
    {g \in LayoutGraphs :
        /\ g.nodes = <<LayoutNode(<<"t">>, 2, 2), LayoutNode(<<"u">>, 2, 4)>>
        /\ g.edges # <<>>
        /\ g.groups = None}

InitRegistry ==
    /\ lgraph \in RegistryGraphs
    /\ lopts = NoOptions
    /\ dagre \in {d \in DagreOutcomes(lgraph) : d.points # <<>>}
    /\ layoutEngines = InitialEngines
    /\ laid = None
    /\ lcalls = <<>>
    /\ bounded = None
    /\ oldSchema = EmptySchema
    /\ diff = None
    /\ diffBack = None
    /\ HookIdle
    /\ input = <<>>
    /\ lexer = NewLexer(<<>>)
    /\ tokens = <<>>
    /\ pos = 0
    /\ schema \in {sch \in DiffSchemasIn :
                      Len(sch.tables) = 1 /\ sch.tables[1].columns = <<IRColumnX, IRColumnY>>}
    /\ pc = "done"
    /\ cur = NoCur
    /\ outcome = "returned"
    /\ error = None
    /\ stmts = <<>>
    /\ vresult = None
    /\ graph = None

NextRegistry ==
    \/ RegisterLayoutEngine
    \/ GetLayoutEngine
    \/ LayoutGraph
    \/ Validate
    \/ Build
    \/ ComputeGraphBounds
    \/ Diff

SpecRegistry == InitRegistry /\ [][NextRegistry]_vars

----------------------------------------------------------------------------
(* useHistory under set, undo, redo, go and clear calls in any order,      *)
(* started new or with a long past                                         *)

MaxHistorySteps == 3

HistoryStates == {StateX1, StateX2, StateX1G, StateXY, StateYX}

\* the state after n set calls that give x = 2 and x = 1 in turn
AlternatingHistory(n) ==
    [past    |-> [i \in 1..n |-> IF i % 2 = 1 THEN StateX1 ELSE StateX2],
     present |-> IF n % 2 = 0 THEN StateX1 ELSE StateX2,
     future  |-> <<>>]

HistoryStarts ==
    {AlternatingHistory(n) : n \in {0, 1, MAX_HISTORY_SIZE - 1, MAX_HISTORY_SIZE}}

\* the parser, validator, layout and diff state as it is while only the
\* hooks run
CoreIdle ==
    /\ LayoutIdle
    /\ DiffIdle
    /\ input = <<>>
    /\ lexer = NewLexer(<<>>)
    /\ tokens = <<>>
    /\ pos = 0
    /\ schema = EmptySchema
    /\ pc = "done"
    /\ cur = NoCur
    /\ outcome = "returned"
    /\ error = None
    /\ stmts = <<>>
    /\ vresult = None
    /\ graph = None

coreVars == <<input, lexer, tokens, pos, schema, pc, cur, outcome, error, stmts,
              vresult, graph, layoutVars, diffVars>>

\* actions.set(newState)
HistorySet ==
    /\ hsteps < MaxHistorySteps
    /\ \E newState \in HistoryStates :
          /\ history' = set(history, newState)
          /\ hlog' = Logged(HistoryCall("set", 0, Some(newState)))
    /\ hsteps' = hsteps + 1
    /\ UNCHANGED <<debounce, coreVars>>

\* actions.undo()
HistoryUndo ==
    /\ hsteps < MaxHistorySteps
    /\ history' = undo(history)
    /\ hlog' = Logged(HistoryCall("undo", 0, None))
    /\ hsteps' = hsteps + 1
    /\ UNCHANGED <<debounce, coreVars>>

\* actions.redo()
HistoryRedo ==
    /\ hsteps < MaxHistorySteps
    /\ history' = redo(history)
    /\ hlog' = Logged(HistoryCall("redo", 0, None))
    /\ hsteps' = hsteps + 1
    /\ UNCHANGED <<debounce, coreVars>>

\* actions.clear()
HistoryClear ==
    /\ hsteps < MaxHistorySteps
    /\ history' = clear(history)
    /\ hlog' = Logged(HistoryCall("clear", 0, None))
    /\ hsteps' = hsteps + 1
    /\ UNCHANGED <<debounce, coreVars>>

\* actions.go(index)
HistoryGo ==
    /\ hsteps < MaxHistorySteps
    /\ \E index \in -2..2 :
          /\ history' = go(history, index)
          /\ hlog' = Logged(HistoryCall("go", index, None))
    /\ hsteps' = hsteps + 1
    /\ UNCHANGED <<debounce, coreVars>>

InitHistory ==
    /\ history \in HistoryStarts
    /\ hlog = <<>>
    /\ hsteps = 0
    /\ debounce = NewDebounce("")
    /\ CoreIdle

NextHistory == HistorySet \/ HistoryUndo \/ HistoryRedo \/ HistoryClear \/ HistoryGo

SpecHistory == InitHistory /\ [][NextHistory]_vars

----------------------------------------------------------------------------
(* useDebouncedParse under input changes and the timer firing              *)

DebounceInputs == {"", "a", "b", "c", "d", "e", "!", "?"}

\* a render with another input
ChangeInput ==
    /\ \E text \in DebounceInputs \ {debounce.input} :
          debounce' = runEffect(debounce, text)
    /\ UNCHANGED <<history, hlog, hsteps, coreVars>>

\* the delay has elapsed for the pending timer
TimerFires ==
    /\ debounce.timer # None
    /\ debounce' = timerCallback(debounce, debounce.timer[1])
    /\ UNCHANGED <<history, hlog, hsteps, coreVars>>

\* the hook mounted with an input: the effect has run once
InitDebounce ==
    /\ \E text \in DebounceInputs : debounce = runEffect(NewDebounce(text), text)
    /\ history = NewHistory(StateX1)
    /\ hlog = <<>>
    /\ hsteps = 0
    /\ CoreIdle

NextDebounce == ChangeInput \/ TimerFires

SpecDebounce == InitDebounce /\ [][NextDebounce]_vars

----------------------------------------------------------------------------
(* Claims about the parser (specification Spec)                            *)

Loops == {"top", "tableBody", "columnSettings", "indexes", "indexColumns",
          "indexSettings", "enumBody", "tableGroupBody"}

\* C1: every iteration of a parser loop consumes at least one token or
\* leaves the loop (by exiting it, entering an inner loop or throwing), so
\* that parseDSL terminates on every input.
C1_LoopsConsume ==
    [][(pc \in Loops /\ outcome = "running" /\ pc' = pc /\ outcome' = "running")
          => pos' > pos]_vars

\* C2: a settings bracket still open at the end of its line makes the parser
\* throw a ParserError located on that line; it never reads on into the
\* following lines.
C2_UnterminatedBracket ==
    [][(Running("columnSettings") /\ typeAt(pos) = "NEWLINE")
          => (outcome' = "ParserError" /\ error'[1].line = tokAt(pos).line)]_vars

\* C3: every ParserError carries the 1-based line and column of a token of
\* the input.
C3_ErrorPosition ==
    outcome = "ParserError" =>
        /\ error[1].line >= 1
        /\ error[1].column >= 1
        /\ \E i \in 1..Len(tokens) :
              tokens[i].line = error[1].line /\ tokens[i].column = error[1].column

SchemaSize(sch) ==
    Len(sch.tables) + Len(sch.relations) + Len(sch.enums) + Len(sch.tableGroups)

\* C4: parseDSL either returns a complete schema (every statement that was
\* started is in it, the whole input was consumed, nothing was thrown) or
\* throws a ParserError; it never throws anything else.
C4_AllOrNothing ==
    /\ outcome \in {"idle", "running", "returned", "ParserError"}
    /\ outcome = "ParserError" => error # None /\ error[1].name = "ParserError"
    /\ outcome = "returned" =>
          /\ error = None
          /\ typeAt(pos) = "EOF"
          /\ cur = NoCur
          /\ SchemaSize(schema) = Len(stmts)

\* C4 witness: a ParserError thrown with the cursor past the end of the
\* token list (the EOF token itself was consumed)
C4_Witness == outcome = "ParserError" /\ pos >= Len(tokens)

RelOps == {"REL_ONE_TO_ONE", "REL_ONE_TO_MANY", "REL_MANY_TO_ONE", "REL_MANY_TO_MANY"}

StmtsOf(kind) == SelectSeq(stmts, LAMBDA st : st.kind = kind)

\* the position of the first endpoint of the Ref statement whose keyword
\* is at position a: after `Ref`, `Ref :` or `Ref name :`
RefFromPos(a) ==
    IF typeAt(a + 1) = "IDENTIFIER" /\ typeAt(a + 2) = "COLON" THEN a + 3
    ELSE IF typeAt(a + 1) = "COLON" THEN a + 2
    ELSE a + 1
\* the position of its operator: after table . column
RefOpPos(a) == RefFromPos(a) + 3

\* C5: a Ref statement whose token between the endpoints is not a relation
\* operator produces no relation (the parser throws).
C5_OperatorRequired ==
    \A k \in 1..Len(schema.relations) :
        typeAt(RefOpPos(StmtsOf("Ref")[k].at)) \in RelOps

RelationTypeOfText(v) ==
    CASE v = <<"-">>      -> "one-to-one"
      [] v = <<"<">>      -> "one-to-many"
      [] v = <<">">>      -> "many-to-one"
      [] v = <<"<", ">">> -> "many-to-many"

\* C6: for a Ref statement with one of the four operators, the relation has
\* the endpoints as written and the type the operator text determines; the
\* tables and columns need not exist.
C6_RelationOfRef ==
    \A k \in 1..Len(schema.relations) :
        LET a   == StmtsOf("Ref")[k].at
            f   == RefFromPos(a)
            rel == schema.relations[k]
        IN  typeAt(f + 3) \in RelOps =>
              /\ rel.from = [table |-> valueAt(f), column |-> valueAt(f + 2)]
              /\ rel.to = [table |-> valueAt(f + 4), column |-> valueAt(f + 6)]
              /\ rel.type = RelationTypeOfText(valueAt(f + 3))

\* C6 witness: a many-to-many relation was parsed while no table exists
C6_Witness ==
    /\ outcome = "returned"
    /\ schema.tables = <<>>
    /\ \E k \in 1..Len(schema.relations) : schema.relations[k].type = "many-to-many"

\* C7: a column `a <type>` with a type name of the mapping table, in any
\* letter case, parses with the mapped type and the type word as rawType;
\* another type word parses with type unknown.
C7_TypeMapping ==
    /\ \A i \in 1..Len(mapping) : \A w \in Casings(mapping[i][1]) :
          (input = TypeProgram(w) /\ pc = "done") =>
              /\ outcome = "returned"
              /\ schema.tables[1].columns[1].type = mapping[i][2]
              /\ schema.tables[1].columns[1].rawType = Some(w)
    /\ \A w \in UnknownTypeWords :
          (input = TypeProgram(w) /\ pc = "done") =>
              /\ outcome = "returned"
              /\ schema.tables[1].columns[1].type = "unknown"
              /\ schema.tables[1].columns[1].rawType = Some(w)

\* C9: the graph built from an accepted program has one node per Table
\* statement, in order, with the table name as id, and one edge per Ref
\* statement, in order.
C9_NodesAndEdges ==
    graph # None =>
        LET ts == StmtsOf("Table")
            rs == StmtsOf("Ref")
            g  == graph[1]
        IN  /\ Len(g.nodes) = Len(ts)
            /\ \A i \in 1..Len(ts) : g.nodes[i].id = valueAt(ts[i].at + 1)
            /\ Len(g.edges) = Len(rs)
            /\ \A i \in 1..Len(rs) :
                  /\ g.edges[i].from.nodeId = valueAt(RefFromPos(rs[i].at))
                  /\ g.edges[i].to.nodeId = valueAt(RefFromPos(rs[i].at) + 4)

\* C9 witness: a graph with two nodes of the same table name and an edge to
\* a table that does not exist
C9_Witness ==
    /\ graph # None
    /\ Len(graph[1].nodes) = 2
    /\ graph[1].nodes[1].id = graph[1].nodes[2].id
    /\ Len(graph[1].edges) = 1
    /\ \A i \in 1..2 : graph[1].nodes[i].id # graph[1].edges[1].to.nodeId

----------------------------------------------------------------------------
(* Claims about the lexer (specification SpecLex)                          *)

Whitespace == {" ", "\t", "\r"}

\* the characters that start a token
TokenStart ==
    LowerLetters \cup UpperLetters \cup Digits \cup
    {"_", "'", "\"", Backquote, "\n", "{", "}", "[", "]", "(", ")", ",", ":", ".",
     "-", "<", ">"}

CountOf(seq, P(_)) == Cardinality({i \in 1..Len(seq) : P(seq[i])})

Has(seq, c) == \E i \in 1..Len(seq) : seq[i] = c

TokenShapes(toks) == [i \in 1..Len(toks) |-> <<toks[i].type, toks[i].value>>]

\* the text is a line comment up to its end
LineCommentOnly(t) ==
    Len(t) >= 2 /\ t[1] = "/" /\ t[2] = "/" /\ ~Has(t, "\n")

\* the text is a block comment up to its end, closed there or not at all
BlockCommentOnly(t) ==
    /\ Len(t) >= 2 /\ t[1] = "/" /\ t[2] = "*"
    /\ \A i \in 3..(Len(t) - 2) : ~(t[i] = "*" /\ t[i + 1] = "/")

\* the text is an opening quote and a string without a closing quote
UnterminatedString(t) ==
    /\ Len(t) >= 1 /\ t[1] = "'"
    /\ \A i \in 2..Len(t) : t[i] \notin {"'", "\\"}

\* a slash of the text opens a comment
OpensComment(t) ==
    \E i \in 1..(Len(t) - 1) : t[i] = "/" /\ t[i + 1] \in {"/", "*"}

\* C8: tokenize() terminates on every text (in every state of its loop the
\* next iteration moves the cursor forward, and the cursor stays within two
\* characters of the end), never throws, turns every character that starts
\* no token into an UNKNOWN token, produces no token for a comment, and
\* returns a sequence whose last element is its only EOF token, also when a
\* string or a block comment is not closed.
C8_LexerTotal ==
    /\ lexer.pos <= Len(lexer.input) + 2
    /\ (~lexer.done /\ lexer.pos < Len(lexer.input)) =>
          tokenizeIteration(lexer).pos > lexer.pos
    /\ CountOf(lexer.tokens, LAMBDA tk : tk.type = "EOF")
          = IF lexer.done THEN 1 ELSE 0
    /\ \A i \in 1..Len(lexer.tokens) :
          lexer.tokens[i].type = "UNKNOWN" =>
              /\ Len(lexer.tokens[i].value) = 1
              /\ lexer.tokens[i].value[1] \notin TokenStart \cup Whitespace
    /\ lexer.done =>
          /\ lexer.pos >= Len(lexer.input)
          /\ lexer.tokens[Len(lexer.tokens)].type = "EOF"
          /\ (~Has(lexer.input, "'") /\ ~OpensComment(lexer.input)) =>
                CountOf(lexer.tokens, LAMBDA tk : tk.type = "UNKNOWN")
                  = CountOf(lexer.input,
                            LAMBDA c : c \notin TokenStart \cup Whitespace)
          /\ (LineCommentOnly(lexer.input) \/ BlockCommentOnly(lexer.input)) =>
                TokenShapes(lexer.tokens) = << <<"EOF", <<>> >> >>
          /\ UnterminatedString(lexer.input) =>
                TokenShapes(lexer.tokens) =
                   << <<"STRING", Tail(lexer.input)>>, <<"EOF", <<>> >> >>

\* C8 witness: tokenize() has returned UNKNOWN, STRING, EOF for a text whose
\* string is not closed (the cursor ran past the end)
C8_Witness ==
    /\ lexer.done
    /\ TokenShapes(lexer.tokens) =
          << <<"UNKNOWN", <<"#">> >>, <<"STRING", <<"a">> >>, <<"EOF", <<>> >> >>
    /\ lexer.pos > Len(lexer.input)

----------------------------------------------------------------------------
(* Claims about the validator (specification SpecIR)                       *)

HasDuplicateTable(sch) ==
    \E i, j \in 1..Len(sch.tables) : i < j /\ sch.tables[i].name = sch.tables[j].name

HasDuplicateColumn(sch) ==
    \E n \in 1..Len(sch.tables) :
        \E i, j \in 1..Len(sch.tables[n].columns) :
            i < j /\ sch.tables[n].columns[i].name = sch.tables[n].columns[j].name

\* the endpoint names a table that does not exist, or a column that no table
\* of that name has
Dangling(sch, end) ==
    ~\E n \in 1..Len(sch.tables) :
        /\ sch.tables[n].name = end.table
        /\ \E j \in 1..Len(sch.tables[n].columns) :
              sch.tables[n].columns[j].name = end.column

HasDanglingRelation(sch) ==
    \E i \in 1..Len(sch.relations) :
        Dangling(sch, sch.relations[i].from) \/ Dangling(sch, sch.relations[i].to)

\* the warnings a schema calls for: tables without a primary key, enum
\* columns naming an undeclared enum, group members naming no table
TablesWithoutKey(sch) ==
    {n \in 1..Len(sch.tables) :
        \A j \in 1..Len(sch.tables[n].columns) :
            sch.tables[n].columns[j].settings.primaryKey # Some(TRUE)}

UndeclaredEnumColumns(sch) ==
    UNION {{<<n, j>> : j \in {j \in 1..Len(sch.tables[n].columns) :
                /\ sch.tables[n].columns[j].type = "enum"
                /\ sch.tables[n].columns[j].settings.enumValues = None
                /\ sch.tables[n].columns[j].rawType # None
                /\ \A e \in 1..Len(sch.enums) :
                      Some(sch.enums[e].name) # sch.tables[n].columns[j].rawType}} :
           n \in 1..Len(sch.tables)}

UnknownGroupMembers(sch) ==
    UNION {{<<g, k>> : k \in {k \in 1..Len(sch.tableGroups[g].tables) :
                \A n \in 1..Len(sch.tables) :
                    sch.tables[n].name # sch.tableGroups[g].tables[k]}} :
           g \in 1..Len(sch.tableGroups)}

\* C10: valid is false exactly when the schema has a duplicate table name,
\* a duplicate column name in a table, or a relation endpoint naming a
\* missing table or column; a table without primary key, an enum column of
\* an undeclared enum and a group member naming no table each add one
\* warning, and warnings never make valid false.
C10_ValidIffNoError ==
    vresult # None =>
        /\ vresult[1].valid =
              ~(HasDuplicateTable(schema) \/ HasDuplicateColumn(schema)
                \/ HasDanglingRelation(schema))
        /\ CountOf(vresult[1].errors, LAMBDA e : e.type = "warning")
              = Cardinality(TablesWithoutKey(schema))
                + Cardinality(UndeclaredEnumColumns(schema))
                + Cardinality(UnknownGroupMembers(schema))
        /\ \A n \in TablesWithoutKey(schema) :
              \E i \in 1..Len(vresult[1].errors) :
                  /\ vresult[1].errors[i].type = "warning"
                  /\ vresult[1].errors[i].message = "has no primary key"
                  /\ vresult[1].errors[i].subject = schema.tables[n].name

\* C10 witness: a schema found valid with the three kinds of warning
C10_Witness ==
    /\ vresult # None
    /\ vresult[1].valid
    /\ schema.relations # <<>>
    /\ \A m \in {"has no primary key", "references unknown enum",
                 "references unknown table"} :
          \E i \in 1..Len(vresult[1].errors) :
              vresult[1].errors[i].type = "warning" /\ vresult[1].errors[i].message = m


\* the entries of the result that are about relation endpoints, as pairs of
\* message and subject, in order
RelationEntries ==
    LET es == SelectSeq(vresult[1].errors,
                        LAMBDA e : e.message \in {"Relation references non-existent table",
                                                  "Relation references non-existent column"})
    IN  [i \in 1..Len(es) |-> <<es[i].type, es[i].message, es[i].subject>>]

\* the columns of every table of that name
ColumnsOfAny(sch, name) ==
    UNION {Names(sch.tables[n].columns) :
              n \in {n \in 1..Len(sch.tables) : sch.tables[n].name = name}}

\* the columns of the last table of that name
ColumnsOfLast(sch, name) ==
    UNION {Names(sch.tables[n].columns) :
              n \in {n \in 1..Len(sch.tables) :
                        /\ sch.tables[n].name = name
                        /\ \A k \in (n + 1)..Len(sch.tables) : sch.tables[k].name # name}}

\* what one endpoint calls for, the columns of its table given by Cols
EndpointExpected(sch, end, Cols(_, _)) ==
    IF \A n \in 1..Len(sch.tables) : sch.tables[n].name # end.table
    THEN << <<"error", "Relation references non-existent table", end.table>> >>
    ELSE IF end.column \notin Cols(sch, end.table)
    THEN << <<"error", "Relation references non-existent column",
              end.table \o <<".">> \o end.column>> >>
    ELSE <<>>

RelationsExpected(sch, Cols(_, _)) ==
    Flatten([i \in 1..Len(sch.relations) |->
                EndpointExpected(sch, sch.relations[i].from, Cols)
                \o EndpointExpected(sch, sch.relations[i].to, Cols)])

\* C11 as stated: every endpoint of every relation gives one error for a
\* missing table, one for a missing column of an existing table (a column
\* that no table of that name has), none otherwise, both endpoints always
\* checked.
C11_EndpointsAnyTable ==
    vresult # None => RelationEntries = RelationsExpected(schema, ColumnsOfAny)

\* C11 amended: the same, a column counting as existing when the last table
\* declared under the endpoint's table name has it.
C11_EndpointsLastTable ==
    vresult # None => RelationEntries = RelationsExpected(schema, ColumnsOfLast)

\* C11 witness: one relation between two different missing tables gave
\* exactly two errors, both for a missing table
C11_Witness ==
    /\ vresult # None
    /\ Len(schema.relations) = 1
    /\ Len(RelationEntries) = 2
    /\ RelationEntries[1][2] = "Relation references non-existent table"
    /\ RelationEntries[2][2] = "Relation references non-existent table"
    /\ RelationEntries[1][3] # RelationEntries[2][3]


----------------------------------------------------------------------------
(* Claims about the graph builder (specification SpecIR)                   *)

\* C12: in the graph built from a schema, the column node of column j of
\* table n is marked as foreign key exactly when some relation of the schema
\* has that table and column as its from endpoint; being a to endpoint does
\* not mark it.
C12_ForeignKeyIffFrom ==
    graph # None =>
        \A n \in 1..Len(schema.tables) :
            \A j \in 1..Len(schema.tables[n].columns) :
                graph[1].nodes[n].columns[j].isForeignKey
                    = \E i \in 1..Len(schema.relations) :
                          /\ schema.relations[i].from.table = schema.tables[n].name
                          /\ schema.relations[i].from.column
                                = schema.tables[n].columns[j].name

\* C12 witness: a relation from t.x to u.y was built into a graph whose t.x
\* is marked and whose u.y is not
C12_Witness ==
    /\ graph # None
    /\ Len(schema.relations) = 1
    /\ schema.relations[1].from = [table |-> <<"t">>, column |-> <<"x">>]
    /\ schema.relations[1].to = [table |-> <<"u">>, column |-> <<"y">>]
    /\ \E n \in 1..Len(graph[1].nodes) : \E j \in 1..Len(graph[1].nodes[n].columns) :
          /\ graph[1].nodes[n].columns[j].id = <<"t", ".", "x">>
          /\ graph[1].nodes[n].columns[j].isForeignKey
    /\ \E n \in 1..Len(graph[1].nodes) : \E j \in 1..Len(graph[1].nodes[n].columns) :
          /\ graph[1].nodes[n].columns[j].id = <<"u", ".", "y">>
          /\ ~graph[1].nodes[n].columns[j].isForeignKey


----------------------------------------------------------------------------
(* Claims about token positions (specification SpecLex)                    *)

\* the line of the character at 0-based offset k: 1 plus the newlines before it
TrueLine(t, k) ==
    1 + Cardinality({i \in 1..k : i <= Len(t) /\ t[i] = "\n"})

\* the column of the character at 0-based offset k: its 1-based offset in
\* its line
TrueColumn(t, k) ==
    LET before == {i \in 1..k : i <= Len(t) /\ t[i] = "\n"}
        last   == IF before = {} THEN 0
                  ELSE CHOOSE i \in before : \A j \in before : j <= i
    IN  k - last + 1

\* C20: the token an iteration of tokenize() pushes carries the line and
\* the column of its first character (the first character after the
\* whitespace and the comments skipped), and the EOF token carries the line
\* and the column of the end of the text.
C20_TokenPositions ==
    /\ (~lexer.done /\ skipWhitespaceAndComments(lexer).pos < Len(lexer.input)) =>
          LET start == skipWhitespaceAndComments(lexer).pos
              after == tokenizeIteration(lexer)
              tok   == after.tokens[Len(after.tokens)]
          IN  /\ Len(after.tokens) = Len(lexer.tokens) + 1
              /\ tok.line = TrueLine(lexer.input, start)
              /\ tok.column = TrueColumn(lexer.input, start)
    /\ lexer.done =>
          LET eof == lexer.tokens[Len(lexer.tokens)]
          IN  /\ eof.line = TrueLine(lexer.input, Len(lexer.input))
              /\ eof.column = TrueColumn(lexer.input, Len(lexer.input))


----------------------------------------------------------------------------
(* Claims about the layout engines (specification SpecLayout)              *)

\* the rectangles [x, x + width) x [y, y + height) of two nodes intersect
Intersect(a, b) ==
    /\ a.position.x < b.position.x + b.size.width
    /\ b.position.x < a.position.x + a.size.width
    /\ a.position.y < b.position.y + b.size.height
    /\ b.position.y < a.position.y + a.size.height

NoOverlap(ns) ==
    \A i, j \in 1..Len(ns) : i < j => ~Intersect(ns[i], ns[j])

\* C13: after the grid engine has laid out two or more nodes of positive
\* size, with the default or any non-negative spacings and padding, no two
\* nodes of the result have intersecting rectangles, nodes of different
\* sizes and nodes of the same id included.
C13_GridNoOverlap ==
    (laid # None /\ laid[1].engine = "grid" /\ Len(lgraph.nodes) >= 2) =>
        /\ Len(laid[1].result.nodes) = Len(lgraph.nodes)
        /\ \A i \in 1..Len(lgraph.nodes) :
              /\ laid[1].result.nodes[i].id = lgraph.nodes[i].id
              /\ laid[1].result.nodes[i].size = lgraph.nodes[i].size
        /\ NoOverlap(laid[1].result.nodes)

\* C13 witness: three nodes laid out by the grid engine with no spacing, the
\* first two of the same id and of different sizes, side by side and
\* touching, the third in the row below the higher of the two
C13_Witness ==
    /\ laid # None /\ laid[1].engine = "grid"
    /\ Len(laid[1].result.nodes) = 3
    /\ LET n == laid[1].result.nodes
       IN  /\ n[1].id = n[2].id
           /\ n[1].size # n[2].size
           /\ n[2].position.x = n[1].position.x + n[1].size.width
           /\ n[2].position.y = n[1].position.y
           /\ n[2].size.height > n[1].size.height
           /\ n[3].position.y = n[2].position.y + n[2].size.height

\* C14: after the dagre engine has laid out two or more nodes of positive
\* size, no two nodes of the result have intersecting rectangles.
C14_DagreNoOverlap ==
    (laid # None /\ laid[1].engine = "dagre" /\ Len(lgraph.nodes) >= 2) =>
        NoOverlap(laid[1].result.nodes)

ZeroBounds == [x |-> 0, y |-> 0, width |-> 0, height |-> 0]

\* C17: the empty graph, with or without groups and notes, laid out by
\* either engine, directly or through layoutGraph, comes back with no nodes,
\* no edges and bounds of zero.
C17_EmptyGraph ==
    (laid # None /\ lgraph.nodes = <<>> /\ lgraph.edges = <<>>) =>
        /\ laid[1].result.nodes = <<>>
        /\ laid[1].result.edges = <<>>
        /\ laid[1].result.bounds = Some(ZeroBounds)

\* C17 witness: the dagre engine has laid out an empty graph that came
\* without groups
C17_Witness ==
    /\ laid # None /\ laid[1].engine = "dagre"
    /\ lgraph.nodes = <<>> /\ lgraph.edges = <<>> /\ lgraph.groups = None
    /\ laid[1].result.bounds = Some(ZeroBounds)

\* C18: computeGraphBounds called on its own result with the same padding
\* gives the same bounds and the same bounds of every group.
C18_BoundsIdempotent ==
    (bounded # None /\ bounded[1].again # None) =>
        LET once  == bounded[1].once
            again == bounded[1].again[1]
        IN  /\ again.bounds = once.bounds
            /\ Len(GroupsOf(again)) = Len(GroupsOf(once))
            /\ \A i \in 1..Len(GroupsOf(once)) :
                  GroupsOf(again)[i].bounds = GroupsOf(once)[i].bounds

\* C18 witness: computeGraphBounds was called twice on a laid out graph
\* with a group of one of its nodes, the group having got its bounds from
\* the first call
C18_Witness ==
    /\ bounded # None /\ bounded[1].again # None
    /\ laid # None /\ bounded[1].of = laid[1].result
    /\ Len(bounded[1].of.nodes) >= 2
    /\ Len(GroupsOf(bounded[1].once)) = 1
    /\ GroupsOf(lgraph)[1].bounds = None
    /\ GroupsOf(bounded[1].once)[1].bounds # None
    /\ bounded[1].once.bounds # Some(ZeroBounds)


----------------------------------------------------------------------------
(* Claims about diffSchemas (specification SpecDiff)                       *)

\* a flag as a boolean, unset counting as false
FlagSet(flag) == flag = Some(TRUE)

\* the columns of name x of the two schemas, when each has one table with
\* exactly that column
BothHaveX ==
    /\ \A s \in {oldSchema, schema} :
          /\ Len(s.tables) = 1
          /\ Len(s.tables[1].columns) = 1
          /\ s.tables[1].columns[1].name = <<"x">>

\* C19: a column present under the same name in the same-named table of
\* both schemas is tagged modified exactly when its display type
\* (rawType ?? type), its primaryKey flag or its notNull flag differs, an
\* unset flag counting as false; otherwise it is tagged unchanged, whatever
\* the other settings.
C19_ModifiedIff ==
    (diff # None /\ BothHaveX) =>
        LET o == oldSchema.tables[1].columns[1]
            n == schema.tables[1].columns[1]
            d == diff[1].tables[1].columnDiffs[1]
        IN  /\ d.name = <<"x">>
            /\ d.action \in {"modified", "unchanged"}
            /\ d.action = "modified"
                  <=> \/ DisplayType(o) # DisplayType(n)
                      \/ FlagSet(o.settings.primaryKey) # FlagSet(n.settings.primaryKey)
                      \/ FlagSet(o.settings.notNull) # FlagSet(n.settings.notNull)


----------------------------------------------------------------------------
(* Claims about the engine registry (specification SpecRegistry)           *)

\* the registrations under name before call k of the log
RegisteredBefore(k, name) ==
    {j \in 1..(k - 1) : lcalls[j].op = "register" /\ lcalls[j].name = name}

\* the engine a lookup of name at call k is to give: the one most recently
\* registered under name, else the one the registry was created with, else
\* the dagre engine
ExpectedEngine(k, name) ==
    IF RegisteredBefore(k, name) # {}
    THEN lcalls[MaxOf(RegisteredBefore(k, name))].engine
    ELSE IF InitialEngines[name] # None THEN InitialEngines[name][1]
    ELSE dagreLayout

\* C15: getLayoutEngine returns, for every name, the engine most recently
\* registered under that name, and for a name never registered the engine
\* named 'dagre'; layoutGraph lays out with exactly that engine.
C15_RegistryLookup ==
    \A k \in 1..Len(lcalls) :
        /\ lcalls[k].op \in {"get", "layout"} =>
              /\ lcalls[k].engine = ExpectedEngine(k, lcalls[k].name)
              /\ (RegisteredBefore(k, lcalls[k].name) = {}
                  /\ InitialEngines[lcalls[k].name] = None)
                    => lcalls[k].engine.name = "dagre"
        /\ lcalls[k].op = "layout" =>
              lcalls[k].result
                  = Some(layoutBy(ExpectedEngine(k, lcalls[k].name), lgraph, lopts))

\* two engines registered under grid one after the other, then a lookup of
\* grid that gives the second, which differs from the first
C15_Witness ==
    /\ Len(lcalls) = 3
    /\ lcalls[1].op = "register" /\ lcalls[1].name = "grid"
    /\ lcalls[2].op = "register" /\ lcalls[2].name = "grid"
    /\ lcalls[1].engine # lcalls[2].engine
    /\ lcalls[3].op = "layout" /\ lcalls[3].name = "grid"
    /\ lcalls[3].engine = lcalls[2].engine
    /\ lcalls[3].result # Some(layoutBy(lcalls[1].engine, lgraph, lopts))

\* C16 as stated: two layoutGraph calls with the same graph, engine name
\* and options give equal results, whatever calls were made in between.
C16_SameResultAlways ==
    \A i, j \in 1..Len(lcalls) :
        (i < j /\ lcalls[i].op = "layout" /\ lcalls[j].op = "layout"
         /\ lcalls[i].name = lcalls[j].name)
            => lcalls[i].result = lcalls[j].result

\* C16 amended: two layoutGraph calls with the same graph, engine name and
\* options give equal results when no engine was registered under that
\* name between them, whatever other calls were made in between.
C16_SameResultUnlessRegistered ==
    \A i, j \in 1..Len(lcalls) :
        (/\ i < j
         /\ lcalls[i].op = "layout" /\ lcalls[j].op = "layout"
         /\ lcalls[i].name = lcalls[j].name
         /\ \A k \in (i + 1)..(j - 1) :
               lcalls[k].op = "register" => lcalls[k].name # lcalls[i].name)
            => lcalls[i].result = lcalls[j].result

\* two layoutGraph calls under grid with a registration under another name
\* between them, the other functions of the core called as well
C16_Witness ==
    /\ Len(lcalls) = 3
    /\ lcalls[1].op = "layout" /\ lcalls[1].name = "grid"
    /\ lcalls[2].op = "register" /\ lcalls[2].name # "grid"
    /\ lcalls[3].op = "layout" /\ lcalls[3].name = "grid"
    /\ lcalls[1].result = lcalls[3].result
    /\ vresult # None /\ graph # None /\ bounded # None /\ diff # None

----------------------------------------------------------------------------
(* Claims about numbers (specification SpecLex)                            *)

\* v reads as [0-9]+(\.[0-9]+)?
MatchesNumber(v) ==
    LET dots == {i \in 1..Len(v) : v[i] = "."}
    IN  /\ Len(v) >= 1
        /\ \A i \in 1..Len(v) : isDigit(v[i]) \/ v[i] = "."
        /\ Cardinality(dots) <= 1
        /\ \A i \in dots : 1 < i /\ i < Len(v)

\* C21: every NUMBER token has a value of digits with at most one dot, the
\* dot between digits.
C21_NumberPattern ==
    \A i \in 1..Len(lexer.tokens) :
        lexer.tokens[i].type = "NUMBER" => MatchesNumber(lexer.tokens[i].value)

----------------------------------------------------------------------------
(* Claims about the edges of a valid schema (specification SpecIR)         *)

\* the schema was validated as valid and its graph was built
ValidAndBuilt == vresult # None /\ vresult[1].valid /\ graph # None

\* the end of an edge names a node of g and a column node of that node
EndResolves(g, end) ==
    \E n \in 1..Len(g.nodes) :
        /\ g.nodes[n].id = end.nodeId
        /\ \E j \in 1..Len(g.nodes[n].columns) : g.nodes[n].columns[j].id = end.columnId

\* C22: in the graph of a schema that validated as valid, both ends of
\* every edge name a node of the graph and a column node of that node.
C22_EdgesResolve ==
    ValidAndBuilt =>
        \A i \in 1..Len(graph[1].edges) :
            /\ EndResolves(graph[1], graph[1].edges[i].from)
            /\ EndResolves(graph[1], graph[1].edges[i].to)

\* a valid schema of two tables and an edge between them
C22_Witness ==
    /\ ValidAndBuilt
    /\ Len(graph[1].nodes) = 2
    /\ Len(graph[1].edges) = 1
    /\ graph[1].edges[1].from.nodeId # graph[1].edges[1].to.nodeId

\* C27: in the graph of a schema that validated as valid, no two edges
\* have the same id.
C27_EdgeIdsDistinct ==
    ValidAndBuilt =>
        \A i, j \in 1..Len(graph[1].edges) :
            i # j => graph[1].edges[i].id # graph[1].edges[j].id

----------------------------------------------------------------------------
(* Claims about the groups of the graph (specification SpecIR)             *)

\* the groups of the schema that list the table name
ListedIn(name) ==
    {i \in 1..Len(schema.tableGroups) :
        \E k \in 1..Len(schema.tableGroups[i].tables) :
            schema.tableGroups[i].tables[k] = name}

\* the group a node of that table name is to have
GroupExpected(name) ==
    IF ListedIn(name) = {} THEN None
    ELSE Some(schema.tableGroups[MaxOf(ListedIn(name))].name)

\* one graph group per table group, its id the name and its nodeIds the
\* list of tables
GroupsMirrored ==
    /\ Len(graph[1].groups) = Len(schema.tableGroups)
    /\ \A i \in 1..Len(schema.tableGroups) :
          /\ graph[1].groups[i].id = schema.tableGroups[i].name
          /\ graph[1].groups[i].nodeIds = schema.tableGroups[i].tables

\* the first node of its table name
FirstOfName(n) ==
    \A m \in 1..(n - 1) : graph[1].nodes[m].name # graph[1].nodes[n].name

\* C25 as stated: the graph has one group per table group, and every node
\* has the name of the last group that lists its table name as its group,
\* or none when no group lists it.
C25_GroupOfEveryNode ==
    graph # None =>
        /\ GroupsMirrored
        /\ \A n \in 1..Len(graph[1].nodes) :
              graph[1].nodes[n].group = GroupExpected(graph[1].nodes[n].name)

\* C25 amended: the graph has one group per table group; the first node of
\* each table name has the name of the last group that lists that name as
\* its group, or none when no group lists it; a later node of the same
\* table name has no group.
C25_GroupOfFirstNode ==
    graph # None =>
        /\ GroupsMirrored
        /\ \A n \in 1..Len(graph[1].nodes) :
              graph[1].nodes[n].group =
                  IF FirstOfName(n) THEN GroupExpected(graph[1].nodes[n].name) ELSE None

\* a table listed by two groups has the later one, a table listed by none
\* has no group
C25_Witness ==
    /\ graph # None
    /\ Len(schema.tableGroups) = 2
    /\ Len(graph[1].nodes) = 2
    /\ graph[1].nodes[1].name = <<"t">>
    /\ graph[1].nodes[1].group = Some(<<"h">>)
    /\ graph[1].nodes[2].name = <<"u">>
    /\ graph[1].nodes[2].group = None

----------------------------------------------------------------------------
(* Claims about what the bounds contain (specification SpecLayout)         *)

\* rectangle b contains the rectangle at (x, y) of size (w, h) grown by
\* left, top, right and bottom
Contains(b, x, y, w, h, left, top, right, bottom) ==
    /\ b.x <= x - left
    /\ b.y <= y - top
    /\ b.x + b.width >= x + w + right
    /\ b.y + b.height >= y + h + bottom

\* the nodes of g that the group lists
MembersOf(g, group) ==
    {n \in 1..Len(g.nodes) :
        \E k \in 1..Len(group.nodeIds) : group.nodeIds[k] = g.nodes[n].id}

\* C23: after computeGraphBounds(graph, padding) with padding >= 0 on a
\* graph of at least one node, a group with a member among the nodes has
\* bounds that contain every member's rectangle grown by 20 on each side
\* and by a further 28 on top, a group with no member has no bounds, and
\* the bounds of the graph contain every node rectangle and every group
\* bounds, grown by the padding.
C23_BoundsContain ==
    (bounded # None /\ Len(bounded[1].of.nodes) >= 1 /\ bounded[1].padding >= 0) =>
        LET g  == bounded[1].of
            r  == bounded[1].once
            p  == bounded[1].padding
            gs == GroupsOf(r)
        IN  /\ Len(gs) = Len(GroupsOf(g))
            /\ r.bounds # None
            /\ \A i \in 1..Len(gs) :
                  IF MembersOf(g, GroupsOf(g)[i]) = {} THEN gs[i].bounds = None
                  ELSE /\ gs[i].bounds # None
                       /\ \A n \in MembersOf(g, GroupsOf(g)[i]) :
                             Contains(gs[i].bounds[1],
                                      r.nodes[n].position.x, r.nodes[n].position.y,
                                      r.nodes[n].size.width, r.nodes[n].size.height,
                                      groupPadding, groupPadding + groupHeaderHeight,
                                      groupPadding, groupPadding)
                       /\ Contains(r.bounds[1], gs[i].bounds[1].x, gs[i].bounds[1].y,
                                   gs[i].bounds[1].width, gs[i].bounds[1].height,
                                   p, p, p, p)
            /\ \A n \in 1..Len(r.nodes) :
                  Contains(r.bounds[1], r.nodes[n].position.x, r.nodes[n].position.y,
                           r.nodes[n].size.width, r.nodes[n].size.height, p, p, p, p)

\* bounds computed for a laid out graph of three nodes at three places, two
\* of them members of its group
C23_Witness ==
    /\ bounded # None
    /\ laid # None
    /\ Len(bounded[1].of.nodes) = 3
    /\ \A i, j \in 1..3 :
          i # j => bounded[1].of.nodes[i].position # bounded[1].of.nodes[j].position
    /\ Len(GroupsOf(bounded[1].once)) = 1
    /\ Cardinality(MembersOf(bounded[1].of, GroupsOf(bounded[1].of)[1])) = 2
    /\ GroupsOf(bounded[1].once)[1].bounds # None

----------------------------------------------------------------------------
(* Claims about what layout leaves alone (specification SpecLayout)        *)

\* r has the nodes of g, in the same order, with the same id, size and
\* columns
SameNodes(g, r) ==
    /\ Len(r.nodes) = Len(g.nodes)
    /\ \A i \in 1..Len(g.nodes) :
          /\ r.nodes[i].id = g.nodes[i].id
          /\ r.nodes[i].size = g.nodes[i].size
          /\ r.nodes[i].columns = g.nodes[i].columns

\* C24: the result of either engine and of computeGraphBounds has the
\* nodes of its input in the same order with the same id, size and
\* columns; computeGraphBounds leaves every node position as it was, and
\* the grid engine leaves the edges as they were.
C24_NodesKept ==
    /\ laid # None =>
          /\ SameNodes(lgraph, laid[1].result)
          /\ laid[1].engine = "grid" => laid[1].result.edges = lgraph.edges
    /\ bounded # None =>
          /\ SameNodes(bounded[1].of, bounded[1].once)
          /\ \A i \in 1..Len(bounded[1].of.nodes) :
                bounded[1].once.nodes[i].position = bounded[1].of.nodes[i].position

\* the dagre engine has moved the nodes of a graph with two nodes of the
\* same id and an edge, and the bounds of the result were computed
C24_Witness ==
    /\ laid # None
    /\ laid[1].engine = "dagre"
    /\ Len(lgraph.nodes) = 3
    /\ lgraph.nodes[1].id = lgraph.nodes[2].id
    /\ lgraph.edges # <<>>
    /\ \A i \in 1..3 : laid[1].result.nodes[i].position # lgraph.nodes[i].position
    /\ bounded # None
    /\ bounded[1].of = laid[1].result

----------------------------------------------------------------------------
(* Claims about the symmetry of diffSchemas (specification SpecDiff)       *)

\* a tag read from the other side
Swapped(action) ==
    CASE action = "added"   -> "removed"
      [] action = "removed" -> "added"
      [] OTHER              -> action

\* every entry of as has an entry of bs of the same key with the tag
\* swapped, and Inner holds of the two
Mirrored(as, bs, Key(_), Inner(_, _)) ==
    \A i \in 1..Len(as) : \E j \in 1..Len(bs) :
        /\ Key(bs[j]) = Key(as[i])
        /\ bs[j].action = Swapped(as[i].action)
        /\ Inner(as[i], bs[j])

DiffName(e) == e.name
DiffId(e) == e.id
NoInner(a, b) == TRUE
ColumnsMirrored(a, b) ==
    /\ Mirrored(a.columnDiffs, b.columnDiffs, DiffName, NoInner)
    /\ Mirrored(b.columnDiffs, a.columnDiffs, DiffName, NoInner)

AllUnchanged(d) ==
    /\ ~d.hasChanges
    /\ \A i \in 1..Len(d.tables) :
          /\ d.tables[i].action = "unchanged"
          /\ \A j \in 1..Len(d.tables[i].columnDiffs) :
                d.tables[i].columnDiffs[j].action = "unchanged"
    /\ \A i \in 1..Len(d.relations) : d.relations[i].action = "unchanged"

\* C26: diffSchemas(b, a) reports the table names, column names and
\* relation ids of diffSchemas(a, b), each with added and removed swapped
\* and modified and unchanged kept, and the same hasChanges; and
\* diffSchemas(s, s) reports everything unchanged and no changes.
C26_Symmetric ==
    /\ (diff # None /\ diffBack # None) =>
          /\ Mirrored(diff[1].tables, diffBack[1].tables, DiffName, ColumnsMirrored)
          /\ Mirrored(diffBack[1].tables, diff[1].tables, DiffName, ColumnsMirrored)
          /\ Mirrored(diff[1].relations, diffBack[1].relations, DiffId, NoInner)
          /\ Mirrored(diffBack[1].relations, diff[1].relations, DiffId, NoInner)
          /\ diff[1].hasChanges = diffBack[1].hasChanges
    /\ (diff # None /\ oldSchema = schema) => AllUnchanged(diff[1])

\* both ways round for two schemas of which one has a table, a column and a
\* relation more than the other, and one column is modified
C26_Witness ==
    /\ diff # None /\ diffBack # None
    /\ Len(oldSchema.tables) = 1 /\ Len(schema.tables) = 2
    /\ Len(schema.relations) = 1
    /\ \E i \in 1..Len(diff[1].tables) : diff[1].tables[i].action = "added"
    /\ \E i \in 1..Len(diff[1].tables) : diff[1].tables[i].action = "modified"
    /\ \E i \in 1..Len(diffBack[1].tables) : diffBack[1].tables[i].action = "removed"
    /\ \E i \in 1..Len(diffBack[1].relations) : diffBack[1].relations[i].action = "removed"

----------------------------------------------------------------------------
(* Claims about useDebouncedParse (specification SpecDebounce)             *)

\* what the hook is to report for an input once it has settled
SettledResult(text) ==
    ParseResultOf(DebounceParser(text).schema, DebounceParser(text).message, FALSE)

\* C30: whenever no debounce timer is pending, isParsing is false and the
\* schema or error reported is the result of the parser on the current
\* input. The empty input, which the hook never parses when it is mounted
\* with it, is left aside.
C30_Converges ==
    (debounce.timer = None /\ debounce.input # "")
        => debounce.result = SettledResult(debounce.input)

----------------------------------------------------------------------------
(* Claims about useHistory (specification SpecHistory)                     *)

\* the last call made and the state it was made in
LastCall == hlog[Len(hlog)]

\* two states have the same properties with the same values
StructurallyEqual(v, w) ==
    {v[i] : i \in 1..Len(v)} = {w[i] : i \in 1..Len(w)}

\* what set(newState) is to leave behind when it takes the state in
SetTaken(before, newState) ==
    [past    |-> SliceLast(Append(before.past, before.present), MAX_HISTORY_SIZE),
     present |-> newState,
     future  |-> <<>>]

\* C28 as stated: past and future together never hold more than
\* MAX_HISTORY_SIZE entries; set with a state structurally different from
\* present appends the old present to past, cut to the limit, and empties
\* future; set with a structurally equal state changes nothing.
C28_SetStructural ==
    /\ Len(history.past) + Len(history.future) <= MAX_HISTORY_SIZE
    /\ (hlog # <<>> /\ LastCall.op = "set") =>
          history = IF StructurallyEqual(LastCall.before.present, LastCall.newState[1])
                    THEN LastCall.before
                    ELSE SetTaken(LastCall.before, LastCall.newState[1])

\* What the code does instead: past and future together never hold more than
\* MAX_HISTORY_SIZE entries; set with a state whose JSON.stringify text
\* differs from that of present appends the old present to past, cut to the
\* limit, and empties future; set with a state of the same text changes
\* nothing.
SetByText ==
    /\ Len(history.past) + Len(history.future) <= MAX_HISTORY_SIZE
    /\ (hlog # <<>> /\ LastCall.op = "set") =>
          history = IF JSONstringify(LastCall.before.present)
                          = JSONstringify(LastCall.newState[1])
                    THEN LastCall.before
                    ELSE SetTaken(LastCall.before, LastCall.newState[1])

RECURSIVE UndoTimes(_, _)
UndoTimes(h, k) == IF k = 0 THEN h ELSE UndoTimes(undo(h), k - 1)

RECURSIVE RedoTimes(_, _)
RedoTimes(h, k) == IF k = 0 THEN h ELSE RedoTimes(redo(h), k - 1)

\* C29: go(n) leaves the history that -n undo calls (n < 0) or n redo calls
\* (n > 0) leave, and go(0) leaves it as it was; undo and then redo, made
\* with a non-empty past, leave the history as it was.
C29_GoIsSteps ==
    /\ (hlog # <<>> /\ LastCall.op = "go") =>
          history = IF LastCall.index < 0
                    THEN UndoTimes(LastCall.before, -LastCall.index)
                    ELSE RedoTimes(LastCall.before, LastCall.index)
    /\ (Len(hlog) = 2 /\ hlog[1].op = "undo" /\ hlog[2].op = "redo"
        /\ Len(hlog[1].before.past) > 0) =>
          history = hlog[1].before

\* go(-2) on a long past, and then go(2) back over the two entries
C29_Witness ==
    /\ Len(hlog) = 2
    /\ hlog[1].op = "go" /\ hlog[1].index = -2
    /\ Len(hlog[1].before.past) >= 2
    /\ hlog[2].op = "go" /\ hlog[2].index = 2
    /\ Len(hlog[2].before.future) = 2
    /\ history = hlog[1].before
    /\ history # hlog[2].before

====
